---------------------------- MODULE Spec2Model ----------------------------
(***************************************************************************)
(* Model of the two numerical routines of the Svalbard notebook            *)
(* (src/eolis_svalbard_timeseries.ipynb):                                  *)
(*                                                                         *)
(*   calculate_time_series         (WeightedDifferenceSeries)              *)
(*   calculate_rate_of_change_map  (PixelTrendEstimator)                   *)
(*                                                                         *)
(* A table (GeoDataFrame) is a sequence of rows                            *)
(*   [geometry, timestamp, elevation, uncertainty].                        *)
(* Floating-point values are modelled as exact rationals extended with the *)
(* IEEE-754 special values NaN, +inf and -inf; rounding is not modelled    *)
(* and -0.0 is identified with 0.0 (they compare equal).  The result of    *)
(* np.sqrt is kept as a symbolic root, so that sqrt(2/3) and sqrt(1/3) are *)
(* different values.                                                       *)
(***************************************************************************)
EXTENDS Integers, Sequences, FiniteSets, TLC

VARIABLES
    gridded_product_data,      \* the argument of the routine
    fn,                        \* the routine that was called
    pc,                        \* position in the routine
    exception,                 \* the exception that left the routine
    unique_timestamps,         \* calculate_time_series: local
    reference_dem,             \* calculate_time_series: local
    weighted_mean_timeseries,  \* calculate_time_series: local
    weighted_mean_errors,      \* calculate_time_series: local
    pixel_groups,              \* calculate_rate_of_change_map: local
    rate_of_surface_elevation_change_years, \* calc._rate_of_change_map: local
    m,                         \* calculate_rate_of_change_map: last fit
    ret,                       \* the value returned
    completed_calls,           \* the calls made before, with what they returned
    notebook                   \* the names the cells outside the routines bind

vars == << gridded_product_data, fn, pc, exception, unique_timestamps,
           reference_dem, weighted_mean_timeseries, weighted_mean_errors,
           pixel_groups, rate_of_surface_elevation_change_years, m, ret,
           completed_calls, notebook >>

---------------------------------------------------------------------------
(* Extended rational arithmetic (IEEE-754 without rounding).               *)

Abs(x) == IF x < 0 THEN -x ELSE x

RECURSIVE GCD(_, _)
GCD(a, b) == IF b = 0 THEN a ELSE GCD(b, a % b)

NaN  == [k |-> "nan",  n |-> 0, d |-> 1]
PInf == [k |-> "pinf", n |-> 0, d |-> 1]
NInf == [k |-> "ninf", n |-> 0, d |-> 1]

\* the rational n/d (d # 0) in lowest terms with a positive denominator
Fin(n, d) ==
    LET g == GCD(Abs(n), Abs(d))
        s == IF d < 0 THEN -1 ELSE 1
    IN  [k |-> "fin", n |-> (s * n) \div g, d |-> (s * d) \div g]

Num(n) == Fin(n, 1)

IsNaN(a)    == a.k = "nan"
IsFinite(a) == a.k = "fin"
Sign(a) == CASE a.k = "pinf" -> 1
             [] a.k = "ninf" -> -1
             [] a.k = "nan"  -> 0
             [] OTHER -> IF a.n > 0 THEN 1 ELSE IF a.n < 0 THEN -1 ELSE 0
InfOfSign(s) == IF s > 0 THEN PInf ELSE NInf

FNeg(a) == CASE a.k = "pinf" -> NInf
             [] a.k = "ninf" -> PInf
             [] a.k = "nan"  -> NaN
             [] OTHER -> Fin(-a.n, a.d)

FAdd(a, b) ==
    CASE IsNaN(a) \/ IsNaN(b) -> NaN
      [] IsFinite(a) /\ IsFinite(b) -> Fin(a.n * b.d + b.n * a.d, a.d * b.d)
      [] IsFinite(a) -> b
      [] IsFinite(b) -> a
      [] OTHER -> IF a.k = b.k THEN a ELSE NaN      \* inf + (-inf) = nan

FSub(a, b) == FAdd(a, FNeg(b))

FMul(a, b) ==
    CASE IsNaN(a) \/ IsNaN(b) -> NaN
      [] IsFinite(a) /\ IsFinite(b) ->
            LET g1 == GCD(Abs(a.n), b.d)
                g2 == GCD(Abs(b.n), a.d)
            IN  Fin((a.n \div g1) * (b.n \div g2), (a.d \div g2) * (b.d \div g1))
      [] OTHER -> IF Sign(a) = 0 \/ Sign(b) = 0 THEN NaN   \* 0 * inf = nan
                  ELSE InfOfSign(Sign(a) * Sign(b))

FDiv(a, b) ==
    CASE IsNaN(a) \/ IsNaN(b) -> NaN
      [] IsFinite(a) /\ IsFinite(b) ->
            IF b.n = 0
            THEN IF a.n = 0 THEN NaN ELSE InfOfSign(Sign(a))  \* x/0
            ELSE Fin(a.n * b.d, a.d * b.n)
      [] IsFinite(a) -> Num(0)                                \* x/inf
      [] IsFinite(b) -> InfOfSign(Sign(a) * (IF b.n < 0 THEN -1 ELSE 1))
      [] OTHER -> NaN                                         \* inf/inf

\* np.sqrt: the root of a non-negative rational is kept symbolically
Root(q) == [k |-> "root", n |-> q.n, d |-> q.d]
np_sqrt(a) ==
    CASE a.k = "nan"  -> NaN
      [] a.k = "pinf" -> PInf
      [] a.k = "ninf" -> NaN
      [] a.k = "root" -> NaN           \* not used by the routines
      [] OTHER -> IF a.n < 0 THEN NaN ELSE Root(a)

\* x ** 2
FPow2(a) ==
    CASE a.k = "root" -> Fin(a.n, a.d)
      [] a.k = "nan"  -> NaN
      [] a.k \in {"pinf", "ninf"} -> PInf
      [] OTHER -> Fin(a.n * a.n, a.d * a.d)

\* mutant of np_sum: min_count=1, the sum of no valid value is NaN
RECURSIVE np_sum_min_count(_)
np_sum_min_count(s) ==
    IF s = << >> THEN NaN
    ELSE IF IsNaN(Head(s)) THEN np_sum_min_count(Tail(s))
         ELSE IF IsNaN(np_sum_min_count(Tail(s))) THEN Head(s)
              ELSE FAdd(Head(s), np_sum_min_count(Tail(s)))

\* mutant of np_sum: skipna=False, a NaN term makes the sum NaN
RECURSIVE np_sum_propagating(_)
np_sum_propagating(s) ==
    IF s = << >> THEN Num(0) ELSE FAdd(Head(s), np_sum_propagating(Tail(s)))

\* np.sum of a pandas Series: Series.sum with skipna=True, 0.0 when empty
RECURSIVE np_sum(_)
np_sum(s) ==
    IF s = << >> THEN Num(0)
    ELSE IF IsNaN(Head(s)) THEN np_sum(Tail(s))
         ELSE FAdd(Head(s), np_sum(Tail(s)))

---------------------------------------------------------------------------
(* Table helpers.                                                          *)

Range(s) == { s[j] : j \in 1..Len(s) }

\* mutant of sorted: the timestamps in descending order
RECURSIVE sorted_descending(_)
sorted_descending(S) ==
    IF S = {} THEN << >>
    ELSE LET hi == CHOOSE x \in S : \A y \in S : x >= y
         IN  << hi >> \o sorted_descending(S \ {hi})

\* sorted(...) of a finite set of integers
RECURSIVE sorted(_)
sorted(S) ==
    IF S = {} THEN << >>
    ELSE LET lo == CHOOSE x \in S : \A y \in S : x <= y
         IN  << lo >> \o sorted(S \ {lo})

\* Series.unique() of the timestamp column
unique(tbl) == { tbl[j].timestamp : j \in 1..Len(tbl) }

\* datetime.fromtimestamp in a zone with a fixed UTC offset: a naive
\* datetime, ordered and compared by its seconds
fromtimestamp(ts) == [datetime |-> ts]

---------------------------------------------------------------------------
(* calculate_time_series                                                   *)

\* gridded_product_data[gridded_product_data.timestamp == ts]
RowsAtTimestamp(tbl, ts) == LET At(r) == r.timestamp = ts IN SelectSeq(tbl, At)

\* mutant of JoinOneLeft: a left row is joined to its first match only
JoinOneLeft_first_hit(l, right) ==
    LET Hit(r) == r.geometry = l.geometry
        hits == SelectSeq(right, Hit)
    IN  [ j \in 1..(IF hits = << >> THEN 0 ELSE 1) |->
            [ geometry          |-> l.geometry,
              timestamp_left    |-> l.timestamp,
              elevation_left    |-> l.elevation,
              uncertainty_left  |-> l.uncertainty,
              timestamp_right   |-> hits[j].timestamp,
              elevation_right   |-> hits[j].elevation,
              uncertainty_right |-> hits[j].uncertainty ] ]

\* the rows of right that intersect the (point) geometry of one left row
JoinOneLeft(l, right) ==
    LET Hit(r) == r.geometry = l.geometry
        hits == SelectSeq(right, Hit)
    IN  [ j \in 1..Len(hits) |->
            [ geometry          |-> l.geometry,
              timestamp_left    |-> l.timestamp,
              elevation_left    |-> l.elevation,
              uncertainty_left  |-> l.uncertainty,
              timestamp_right   |-> hits[j].timestamp,
              elevation_right   |-> hits[j].elevation,
              uncertainty_right |-> hits[j].uncertainty ] ]

\* left.sjoin(df=right, how='inner'), predicate 'intersects' on points:
\* one merged row per (left row, right row) with identical coordinates
RECURSIVE sjoin(_, _)
sjoin(left, right) ==
    IF left = << >> THEN << >>
    ELSE JoinOneLeft(Head(left), right) \o sjoin(Tail(left), right)

\* mutant of elevation_difference: reference minus timestamp
elevation_difference_reversed(row) ==
    FSub(Num(row.elevation_left), Num(row.elevation_right))

\* merged_gdf['elevation_right'] - merged_gdf['elevation_left']
elevation_difference(row) == FSub(Num(row.elevation_right), Num(row.elevation_left))

\* mutant of elevation_difference_unc: the reference uncertainty left out
elevation_difference_unc_right_only(row) == np_sqrt(FPow2(row.uncertainty_right))

\* np.sqrt(uncertainty_right**2 + uncertainty_left**2)
elevation_difference_unc(row) ==
    np_sqrt(FAdd(FPow2(row.uncertainty_right), FPow2(row.uncertainty_left)))

\* mutant of WeightedDifferences: the differences left undivided
WeightedDifferences_undivided(merged_gdf) ==
    [ j \in 1..Len(merged_gdf) |-> elevation_difference(merged_gdf[j]) ]

\* the Series elevation_difference / elevation_difference_unc**2
WeightedDifferences(merged_gdf) ==
    [ j \in 1..Len(merged_gdf) |->
        FDiv(elevation_difference(merged_gdf[j]),
             FPow2(elevation_difference_unc(merged_gdf[j]))) ]

\* mutant of Weights: every pair weighs the same
Weights_uniform(merged_gdf) == [ j \in 1..Len(merged_gdf) |-> Num(1) ]

\* the Series 1 / elevation_difference_unc**2
Weights(merged_gdf) ==
    [ j \in 1..Len(merged_gdf) |->
        FDiv(Num(1), FPow2(elevation_difference_unc(merged_gdf[j]))) ]

\* mutant of weighted_mean: the plain mean of the differences
weighted_mean_unweighted(merged_gdf) ==
    FDiv(np_sum([ j \in 1..Len(merged_gdf) |-> elevation_difference(merged_gdf[j]) ]),
         Num(Len(merged_gdf)))

\* average elevation change, weighted by measurement uncertainty
weighted_mean(merged_gdf) ==
    FDiv(np_sum(WeightedDifferences(merged_gdf)), np_sum(Weights(merged_gdf)))

\* mutant of error: the square root left out
error_variance(merged_gdf) == FDiv(Num(1), np_sum(Weights(merged_gdf)))

\* weighted average uncertainty
error(merged_gdf) == np_sqrt(FDiv(Num(1), np_sum(Weights(merged_gdf))))

\* mutant of reference_dem_of: the last timestamp taken as the reference
reference_dem_of_last(tbl, uts) == RowsAtTimestamp(tbl, uts[Len(uts)])

\* gridded_product_data[gridded_product_data.timestamp == unique_timestamps[0]]
reference_dem_of(tbl, uts) == RowsAtTimestamp(tbl, uts[1])

\* mutant of call_calculate_time_series: an empty table is let through
call_calculate_time_series_unguarded ==
    /\ pc = "idle"
    /\ fn' = "calculate_time_series"
    /\ unique_timestamps' = sorted(unique(gridded_product_data))
    /\ pc' = "ts_loop"
    /\ reference_dem' = << >>
    /\ weighted_mean_timeseries' = << >>
    /\ weighted_mean_errors' = << >>
    /\ UNCHANGED << completed_calls, notebook,
                    gridded_product_data, exception, pixel_groups,
                    rate_of_surface_elevation_change_years, m, ret >>

\* unique_timestamps = sorted(...unique()); reference_dem = ...[0]:
\* indexing the empty list raises IndexError
call_calculate_time_series ==
    /\ pc = "idle"
    /\ fn' = "calculate_time_series"
    /\ unique_timestamps' = sorted(unique(gridded_product_data))
    /\ IF unique_timestamps' = << >>
       THEN /\ pc' = "raised"
            /\ exception' = "IndexError"
            /\ UNCHANGED << reference_dem, weighted_mean_timeseries,
                            weighted_mean_errors >>
       ELSE /\ pc' = "ts_loop"
            /\ reference_dem' =
                 reference_dem_of(gridded_product_data, unique_timestamps')
            /\ weighted_mean_timeseries' = << >>
            /\ weighted_mean_errors' = << >>
            /\ UNCHANGED exception
    /\ UNCHANGED << completed_calls, notebook,
                    gridded_product_data, pixel_groups,
                    rate_of_surface_elevation_change_years, m, ret >>

\* mutant of time_series_loop_body: the difference is taken to the previous
\* timestamp, reference_dem being overwritten in the loop
time_series_loop_body_chained ==
    /\ pc = "ts_loop"
    /\ Len(weighted_mean_timeseries) < Len(unique_timestamps)
    /\ LET unique_timestamp ==
               unique_timestamps[Len(weighted_mean_timeseries) + 1]
           gridded_product_for_timestamp ==
               RowsAtTimestamp(gridded_product_data, unique_timestamp)
           merged_gdf == sjoin(reference_dem, gridded_product_for_timestamp)
       IN  /\ weighted_mean_timeseries' =
                 Append(weighted_mean_timeseries, weighted_mean(merged_gdf))
           /\ weighted_mean_errors' =
                 Append(weighted_mean_errors, error(merged_gdf))
           /\ reference_dem' = gridded_product_for_timestamp
    /\ UNCHANGED << completed_calls, notebook,
                    gridded_product_data, fn, pc, exception, unique_timestamps,
                    pixel_groups, rate_of_surface_elevation_change_years, m,
                    ret >>

\* mutant of time_series_loop_body: a running sum, each entry added to the
\* entry appended before it
time_series_loop_body_cumulative ==
    /\ pc = "ts_loop"
    /\ Len(weighted_mean_timeseries) < Len(unique_timestamps)
    /\ LET unique_timestamp ==
               unique_timestamps[Len(weighted_mean_timeseries) + 1]
           gridded_product_for_timestamp ==
               RowsAtTimestamp(gridded_product_data, unique_timestamp)
           merged_gdf == sjoin(reference_dem, gridded_product_for_timestamp)
           before == IF weighted_mean_timeseries = << >> THEN Num(0)
                     ELSE weighted_mean_timeseries[Len(weighted_mean_timeseries)]
       IN  /\ weighted_mean_timeseries' =
                 Append(weighted_mean_timeseries,
                        FAdd(before, weighted_mean(merged_gdf)))
           /\ weighted_mean_errors' =
                 Append(weighted_mean_errors, error(merged_gdf))
    /\ UNCHANGED << completed_calls, notebook,
                    gridded_product_data, fn, pc, exception, unique_timestamps,
                    reference_dem, pixel_groups,
                    rate_of_surface_elevation_change_years, m, ret >>

\* one pass of "for unique_timestamp in unique_timestamps"
time_series_loop_body ==
    /\ pc = "ts_loop"
    /\ Len(weighted_mean_timeseries) < Len(unique_timestamps)
    /\ LET unique_timestamp ==
               unique_timestamps[Len(weighted_mean_timeseries) + 1]
           gridded_product_for_timestamp ==
               RowsAtTimestamp(gridded_product_data, unique_timestamp)
           merged_gdf == sjoin(reference_dem, gridded_product_for_timestamp)
       IN  /\ weighted_mean_timeseries' =
                 Append(weighted_mean_timeseries, weighted_mean(merged_gdf))
           /\ weighted_mean_errors' =
                 Append(weighted_mean_errors, error(merged_gdf))
    /\ UNCHANGED << completed_calls, notebook,
                    gridded_product_data, fn, pc, exception, unique_timestamps,
                    reference_dem, pixel_groups,
                    rate_of_surface_elevation_change_years, m, ret >>

\* mutant of time_series_return: the lists outlive the call, so that a
\* later call returns its entries after those of the calls before it
time_series_return_accumulating ==
    /\ pc = "ts_loop"
    /\ Len(weighted_mean_timeseries) = Len(unique_timestamps)
    /\ pc' = "returned"
    /\ LET IsEarlier(c) == c.fn = "calculate_time_series"
           earlier == SelectSeq(completed_calls, IsEarlier)
           kept == IF earlier = << >>
                   THEN [ weighted_mean_timeseries |-> << >>,
                          weighted_mean_errors |-> << >>, dates |-> << >> ]
                   ELSE earlier[Len(earlier)].ret
       IN  ret' = [ weighted_mean_timeseries |->
                        kept.weighted_mean_timeseries \o weighted_mean_timeseries,
                    weighted_mean_errors |->
                        kept.weighted_mean_errors \o weighted_mean_errors,
                    dates |-> kept.dates \o
                              [ j \in 1..Len(unique_timestamps) |->
                                  fromtimestamp(unique_timestamps[j]) ] ]
    /\ UNCHANGED << completed_calls, notebook,
                    gridded_product_data, fn, exception, unique_timestamps,
                    reference_dem, weighted_mean_timeseries,
                    weighted_mean_errors, pixel_groups,
                    rate_of_surface_elevation_change_years, m >>

\* dates = [...]; return np.array(...), np.array(...), dates
time_series_return ==
    /\ pc = "ts_loop"
    /\ Len(weighted_mean_timeseries) = Len(unique_timestamps)
    /\ pc' = "returned"
    /\ ret' = [ weighted_mean_timeseries |-> weighted_mean_timeseries,
                weighted_mean_errors     |-> weighted_mean_errors,
                dates |-> [ j \in 1..Len(unique_timestamps) |->
                              fromtimestamp(unique_timestamps[j]) ] ]
    /\ UNCHANGED << completed_calls, notebook,
                    gridded_product_data, fn, exception, unique_timestamps,
                    reference_dem, weighted_mean_timeseries,
                    weighted_mean_errors, pixel_groups,
                    rate_of_surface_elevation_change_years, m >>

---------------------------------------------------------------------------
(* calculate_rate_of_change_map                                            *)

\* the order in which groupby (sort=True) presents its keys
KeyLess(p, q) == p[1] < q[1] \/ (p[1] = q[1] /\ p[2] < q[2])

RECURSIVE SortedKeys(_)
SortedKeys(S) ==
    IF S = {} THEN << >>
    ELSE LET lo == CHOOSE p \in S : \A q \in S \ {p} : KeyLess(p, q)
         IN  << lo >> \o SortedKeys(S \ {lo})

\* mutant of groupby_geometry: pixels with fewer than two distinct
\* timestamps are dropped
groupby_geometry_min_two(tbl) ==
    LET Enough(p) == \E j \in 1..Len(tbl), q \in 1..Len(tbl) :
                        /\ tbl[j].geometry = p /\ tbl[q].geometry = p
                        /\ tbl[j].timestamp # tbl[q].timestamp
        keys == SortedKeys({ p \in { tbl[j].geometry : j \in 1..Len(tbl) } : Enough(p) })
    IN  [ g \in 1..Len(keys) |->
            [ key |-> keys[g],
              rows |-> LET In(r) == r.geometry = keys[g] IN SelectSeq(tbl, In) ] ]

\* mutant of groupby_geometry: one group per row, in table order
groupby_geometry_per_row(tbl) ==
    [ g \in 1..Len(tbl) |-> [ key |-> tbl[g].geometry, rows |-> << tbl[g] >> ] ]

\* gridded_product_data.groupby(by='geometry'): one group per distinct
\* geometry, keys in sorted order, each group's rows in table order
groupby_geometry(tbl) ==
    LET keys == SortedKeys({ tbl[j].geometry : j \in 1..Len(tbl) })
    IN  [ g \in 1..Len(keys) |->
            [ key |-> keys[g],
              rows |-> LET In(r) == r.geometry = keys[g] IN SelectSeq(tbl, In) ] ]

\* insertion of one row into a table sorted by timestamp, after its equals
RECURSIVE InsertByTimestamp(_, _)
InsertByTimestamp(r, tbl) ==
    IF tbl = << >> THEN << r >>
    ELSE IF r.timestamp < Head(tbl).timestamp THEN << r >> \o tbl
         ELSE << Head(tbl) >> \o InsertByTimestamp(r, Tail(tbl))

\* pixel_group.sort_values(by='timestamp'); the order sort_values leaves
\* among equal timestamps does not enter the fit, whose sums are symmetric
RECURSIVE sort_values_by_timestamp(_)
sort_values_by_timestamp(tbl) ==
    IF tbl = << >> THEN << >>
    ELSE InsertByTimestamp(tbl[Len(tbl)],
                           sort_values_by_timestamp(SubSeq(tbl, 1, Len(tbl) - 1)))

RECURSIVE SumSeq(_)
SumSeq(s) == IF s = << >> THEN 0 ELSE Head(s) + SumSeq(Tail(s))

\* mutant of lstsq_m: the column of ones left out, a fit through the origin
lstsq_m_no_intercept(pixel_group_df) ==
    LET n   == Len(pixel_group_df)
        Stt == SumSeq([ j \in 1..n |->
                  pixel_group_df[j].timestamp * pixel_group_df[j].timestamp ])
        Ste == SumSeq([ j \in 1..n |->
                  pixel_group_df[j].timestamp * pixel_group_df[j].elevation ])
    IN  IF Stt # 0 THEN Fin(Ste, Stt) ELSE Num(0)

\* mutant of lstsq_m: the slope between the first and the last row
lstsq_m_endpoints(pixel_group_df) ==
    LET n == Len(pixel_group_df)
        dt == pixel_group_df[n].timestamp - pixel_group_df[1].timestamp
    IN  IF dt # 0
        THEN Fin(pixel_group_df[n].elevation - pixel_group_df[1].elevation, dt)
        ELSE Num(0)

\* m of np.linalg.lstsq(np.vstack([t, ones]).T, e, rcond=None)[0]: the
\* least-squares solution, and the one of minimum norm when the matrix has
\* rank 1 (every timestamp of the group the same)
lstsq_m(pixel_group_df) ==
    LET n   == Len(pixel_group_df)
        t   == [ j \in 1..n |-> pixel_group_df[j].timestamp ]
        e   == [ j \in 1..n |-> pixel_group_df[j].elevation ]
        St  == SumSeq(t)
        Se  == SumSeq(e)
        Stt == SumSeq([ j \in 1..n |-> t[j] * t[j] ])
        Ste == SumSeq([ j \in 1..n |-> t[j] * e[j] ])
        det == n * Stt - St * St
    IN  IF det # 0
        THEN Fin(n * Ste - St * Se, det)
        ELSE Fin(Se * t[1], n * (t[1] * t[1] + 1))

\* mutant of rescale_to_years: a year of 365.25 days
rescale_to_julian_years(slope) ==
    FMul(FMul(FMul(FMul(slope, Num(60)), Num(60)), Num(24)), Fin(1461, 4))

\* mutant of rescale_to_years: the days of the year left out
rescale_to_days(slope) == FMul(FMul(FMul(slope, Num(60)), Num(60)), Num(24))

\* m * 60 * 60 * 24 * 365
rescale_to_years(slope) ==
    FMul(FMul(FMul(FMul(slope, Num(60)), Num(60)), Num(24)), Num(365))

\* pixel_groups = gridded_product_data.groupby(by='geometry')
call_calculate_rate_of_change_map ==
    /\ pc = "idle"
    /\ fn' = "calculate_rate_of_change_map"
    /\ pc' = "roc_loop"
    /\ pixel_groups' = groupby_geometry(gridded_product_data)
    /\ rate_of_surface_elevation_change_years' = << >>
    /\ UNCHANGED << completed_calls, notebook,
                    gridded_product_data, exception, unique_timestamps,
                    reference_dem, weighted_mean_timeseries,
                    weighted_mean_errors, m, ret >>

\* mutant of rate_of_change_loop_body: the group is a view of the table
\* and is sorted in place, which reorders the rows of the table
rate_of_change_loop_body_inplace ==
    /\ pc = "roc_loop"
    /\ Len(rate_of_surface_elevation_change_years) < Len(pixel_groups)
    /\ LET pixel_group ==
               pixel_groups[Len(rate_of_surface_elevation_change_years) + 1].rows
           pixel_group_df == sort_values_by_timestamp(pixel_group)
       IN  /\ m' = lstsq_m(pixel_group_df)
           /\ rate_of_surface_elevation_change_years' =
                 Append(rate_of_surface_elevation_change_years,
                        rescale_to_years(m'))
           /\ gridded_product_data' =
                 sort_values_by_timestamp(gridded_product_data)
    /\ UNCHANGED << completed_calls, notebook, fn, pc, exception,
                    unique_timestamps, reference_dem,
                    weighted_mean_timeseries, weighted_mean_errors,
                    pixel_groups, ret >>

\* one pass of "for _, pixel_group in pixel_groups"
rate_of_change_loop_body ==
    /\ pc = "roc_loop"
    /\ Len(rate_of_surface_elevation_change_years) < Len(pixel_groups)
    /\ LET pixel_group ==
               pixel_groups[Len(rate_of_surface_elevation_change_years) + 1].rows
           pixel_group_df == sort_values_by_timestamp(pixel_group)
       IN  /\ m' = lstsq_m(pixel_group_df)
           /\ rate_of_surface_elevation_change_years' =
                 Append(rate_of_surface_elevation_change_years,
                        rescale_to_years(m'))
    /\ UNCHANGED << completed_calls, notebook,
                    gridded_product_data, fn, pc, exception, unique_timestamps,
                    reference_dem, weighted_mean_timeseries,
                    weighted_mean_errors, pixel_groups, ret >>

\* mutant of rate_of_change_return: the geometries taken from the groups
\* in the reverse of the order the loop visited them in
rate_of_change_return_keys_reversed ==
    /\ pc = "roc_loop"
    /\ Len(rate_of_surface_elevation_change_years) = Len(pixel_groups)
    /\ pc' = "returned"
    /\ ret' = [ j \in 1..Len(pixel_groups) |->
                  [ geometry |-> pixel_groups[Len(pixel_groups) + 1 - j].key,
                    rate_of_surface_elevation_change_years |->
                        rate_of_surface_elevation_change_years[j] ] ]
    /\ UNCHANGED << completed_calls, notebook,
                    gridded_product_data, fn, exception, unique_timestamps,
                    reference_dem, weighted_mean_timeseries,
                    weighted_mean_errors, pixel_groups,
                    rate_of_surface_elevation_change_years, m >>

\* dhdt_gdf = gpd.GeoDataFrame({...}, geometry=[key for key, _ in
\* pixel_groups], ...); return dhdt_gdf
rate_of_change_return ==
    /\ pc = "roc_loop"
    /\ Len(rate_of_surface_elevation_change_years) = Len(pixel_groups)
    /\ pc' = "returned"
    /\ ret' = [ j \in 1..Len(pixel_groups) |->
                  [ geometry |-> pixel_groups[j].key,
                    rate_of_surface_elevation_change_years |->
                        rate_of_surface_elevation_change_years[j] ] ]
    /\ UNCHANGED << completed_calls, notebook,
                    gridded_product_data, fn, exception, unique_timestamps,
                    reference_dem, weighted_mean_timeseries,
                    weighted_mean_errors, pixel_groups,
                    rate_of_surface_elevation_change_years, m >>

---------------------------------------------------------------------------
(* The value each routine computes for one group of a table.               *)

\* calculate_time_series: the weighted mean and the error of timestamp ts
TimeSeriesEntry(tbl, ts) ==
    LET merged_gdf == sjoin(reference_dem_of(tbl, sorted(unique(tbl))),
                            RowsAtTimestamp(tbl, ts))
    IN  << weighted_mean(merged_gdf), error(merged_gdf) >>

\* calculate_rate_of_change_map: the rate reported for the pixel at p
RateEntry(tbl, p) ==
    LET In(r) == r.geometry = p
    IN  rescale_to_years(lstsq_m(sort_values_by_timestamp(SelectSeq(tbl, In))))

\* what the loop of calculate_time_series, taking the timestamps of tbl in
\* ascending order, returns
SequentialTimeSeries(tbl) ==
    LET uts == sorted(unique(tbl))
        entries == [ j \in 1..Len(uts) |-> TimeSeriesEntry(tbl, uts[j]) ]
    IN  [ weighted_mean_timeseries |-> [ j \in 1..Len(uts) |-> entries[j][1] ],
          weighted_mean_errors |-> [ j \in 1..Len(uts) |-> entries[j][2] ],
          dates |-> [ j \in 1..Len(uts) |-> fromtimestamp(uts[j]) ] ]

\* what the loop of calculate_rate_of_change_map returns, as a set of rows
SequentialRateMap(tbl) ==
    { [ geometry |-> p, rate_of_surface_elevation_change_years |-> RateEntry(tbl, p) ] :
        p \in { tbl[j].geometry : j \in 1..Len(tbl) } }

---------------------------------------------------------------------------
(* Inputs and specifications.                                              *)

\* the largest number of rows of an input table
MaxRows == 3

Locations     == { <<0, 0>>, <<1, 0>> }
Timestamps    == { 0, 1, 2 }
Elevations    == { 0, 1 }

Tables(R, maxRows) == UNION { [ 1..len -> R ] : len \in 0..maxRows }

Unset == [k |-> "unset", n |-> 0, d |-> 1]

InitLocals ==
    /\ fn = "none"
    /\ pc = "idle"
    /\ exception = "none"
    /\ unique_timestamps = << >>
    /\ reference_dem = << >>
    /\ weighted_mean_timeseries = << >>
    /\ weighted_mean_errors = << >>
    /\ pixel_groups = << >>
    /\ rate_of_surface_elevation_change_years = << >>
    /\ m = Unset
    /\ ret = << >>
    /\ completed_calls = << >>
    /\ notebook = << >>

NextTimeSeries ==
    \/ call_calculate_time_series
    \/ time_series_loop_body
    \/ time_series_return

NextRateOfChange ==
    \/ call_calculate_rate_of_change_map
    \/ rate_of_change_loop_body
    \/ rate_of_change_return

Next ==
    \/ call_calculate_time_series
    \/ time_series_loop_body
    \/ time_series_return
    \/ call_calculate_rate_of_change_map
    \/ rate_of_change_loop_body
    \/ rate_of_change_return

(* Spec: either routine on any table of at most MaxRows rows with finite,  *)
(* strictly positive uncertainties.                                        *)
Rows == [ geometry : Locations, timestamp : Timestamps,
          elevation : Elevations, uncertainty : { Num(1), Num(2) } ]

Init ==
    /\ gridded_product_data \in Tables(Rows, MaxRows)
    /\ InitLocals

Spec == Init /\ [][Next]_vars

(* SpecTimeSeries: calculate_time_series alone on the tables of Spec.      *)
SpecTimeSeries == Init /\ [][NextTimeSeries]_vars

(* SpecRateOfChange: calculate_rate_of_change_map alone on the tables of   *)
(* Spec.                                                                   *)
SpecRateOfChange == Init /\ [][NextRateOfChange]_vars

(* SpecRowOrder: calculate_rate_of_change_map on the tables of Spec whose  *)
(* uncertainties, which the routine does not read, are all 1.              *)
RowsOneUncertainty == [ geometry : Locations, timestamp : Timestamps,
                        elevation : Elevations, uncertainty : { Num(1) } ]

InitRowOrder ==
    /\ gridded_product_data \in Tables(RowsOneUncertainty, MaxRows)
    /\ InitLocals

SpecRowOrder == InitRowOrder /\ [][NextRateOfChange]_vars

(* SpecFailures: either routine on tables in which an uncertainty may be   *)
(* missing (NaN).                                                          *)
RowsWithMissing == [ geometry : Locations, timestamp : Timestamps,
                     elevation : Elevations, uncertainty : { NaN, Num(1) } ]

InitFailures ==
    /\ gridded_product_data \in Tables(RowsWithMissing, MaxRows)
    /\ InitLocals

SpecFailures == InitFailures /\ [][Next]_vars

(* SpecUncertainty: calculate_time_series on one pixel whose samples carry *)
(* missing, zero, negative or positive uncertainties.                      *)
RowsAnyUncertainty ==
    [ geometry : { <<0, 0>> }, timestamp : { 0, 1 }, elevation : Elevations,
      uncertainty : { NaN, Num(0), Num(-1), Num(2) } ]

InitUncertainty ==
    /\ gridded_product_data \in Tables(RowsAnyUncertainty, MaxRows)
    /\ InitLocals

SpecUncertainty == InitUncertainty /\ [][NextTimeSeries]_vars

(* SpecScenario: calculate_time_series on the three-pixel scenario         *)
(* A:(10,10), B:(20,18), C:(5,4) at (t0,t1), every uncertainty 1, the rows *)
(* in any order.                                                           *)
ScenarioRows(t0, t1) ==
    { [ geometry |-> <<0, 0>>, timestamp |-> t0, elevation |-> 10, uncertainty |-> Num(1) ],
      [ geometry |-> <<0, 0>>, timestamp |-> t1, elevation |-> 10, uncertainty |-> Num(1) ],
      [ geometry |-> <<1, 0>>, timestamp |-> t0, elevation |-> 20, uncertainty |-> Num(1) ],
      [ geometry |-> <<1, 0>>, timestamp |-> t1, elevation |-> 18, uncertainty |-> Num(1) ],
      [ geometry |-> <<0, 1>>, timestamp |-> t0, elevation |-> 5,  uncertainty |-> Num(1) ],
      [ geometry |-> <<0, 1>>, timestamp |-> t1, elevation |-> 4,  uncertainty |-> Num(1) ] }

Orderings(S) ==
    { f \in [ 1..Cardinality(S) -> S ] : \A x \in S : \E j \in 1..Cardinality(S) : f[j] = x }

IsScenario(tbl, t0, t1) == Len(tbl) = 6 /\ Range(tbl) = ScenarioRows(t0, t1)

InitScenario ==
    /\ \E t0 \in Timestamps, t1 \in Timestamps :
          /\ t0 < t1
          /\ gridded_product_data \in Orderings(ScenarioRows(t0, t1))
    /\ InitLocals

SpecScenario == InitScenario /\ [][NextTimeSeries]_vars

(* SpecLinear: calculate_rate_of_change_map on noise-free data: the        *)
(* samples of each pixel lie on a line elevation = a*t + b of its own.     *)
LineCoefficients == [ a : { -1, 2 }, b : { 0, 3 } ]

OnLine(c, t) == c.a * t + c.b

InitLinear ==
    /\ \E line \in [ Locations -> LineCoefficients ] :
       \E at \in Tables([ geometry : Locations, timestamp : Timestamps ], MaxRows + 1) :
          gridded_product_data =
             [ j \in 1..Len(at) |->
                 [ geometry |-> at[j].geometry, timestamp |-> at[j].timestamp,
                   elevation |-> OnLine(line[at[j].geometry], at[j].timestamp),
                   uncertainty |-> Num(1) ] ]
    /\ InitLocals

SpecLinear == InitLinear /\ [][NextRateOfChange]_vars

(* SpecRepeated: the routines called one after the other on one table, as  *)
(* the cells that loop over svalbard_eolis_data call them.                 *)

\* the largest number of calls made on one table
MaxCalls == 2

\* the caller takes the returned value and goes on to its next call
call_again ==
    /\ pc = "returned"
    /\ Len(completed_calls) < MaxCalls - 1
    /\ completed_calls' = Append(completed_calls, [ fn |-> fn, ret |-> ret ])
    /\ pc' = "idle"
    /\ UNCHANGED << notebook, gridded_product_data, fn, exception,
                    unique_timestamps, reference_dem,
                    weighted_mean_timeseries, weighted_mean_errors,
                    pixel_groups, rate_of_surface_elevation_change_years,
                    m, ret >>

NextRepeated ==
    \/ call_calculate_time_series
    \/ time_series_loop_body
    \/ time_series_return
    \/ call_calculate_rate_of_change_map
    \/ rate_of_change_loop_body
    \/ rate_of_change_return
    \/ call_again

RowsRepeated == [ geometry : Locations, timestamp : { 0, 1 },
                  elevation : Elevations, uncertainty : { Num(1) } ]

InitRepeated ==
    /\ gridded_product_data \in Tables(RowsRepeated, MaxRows)
    /\ InitLocals

SpecRepeated == InitRepeated /\ [][NextRepeated]_vars

---------------------------------------------------------------------------
(* SpecAnyOrder: the loops of the two routines with their groups visited   *)
(* in any order (an interleaving of passes that run one at a time), the    *)
(* time series sorted by timestamp at the end.  Ascending order is the     *)
(* loop of the source.                                                     *)

\* the positions of a sequence of timestamps, in ascending order of them
AscendingPositions(uts) ==
    CHOOSE f \in Orderings(1..Len(uts)) :
       \A j \in 1..Len(uts) - 1 : uts[f[j]] < uts[f[j + 1]]

\* calculate_time_series called a first time, or once more: the distinct
\* timestamps are visited in any order; the reference is that of the
\* smallest
call_time_series_any_order ==
    /\ pc = "idle"
    /\ \A c \in 1..Len(completed_calls) :
          completed_calls[c].fn = "calculate_time_series"
    /\ fn' = "calculate_time_series"
    /\ IF gridded_product_data = << >>
       THEN /\ unique_timestamps' = << >>
            /\ pc' = "raised"
            /\ exception' = "IndexError"
            /\ UNCHANGED << reference_dem, weighted_mean_timeseries,
                            weighted_mean_errors >>
       ELSE /\ unique_timestamps' \in Orderings(unique(gridded_product_data))
            /\ pc' = "ts_loop"
            /\ reference_dem' =
                 reference_dem_of(gridded_product_data,
                                  sorted(unique(gridded_product_data)))
            /\ weighted_mean_timeseries' = << >>
            /\ weighted_mean_errors' = << >>
            /\ UNCHANGED exception
    /\ UNCHANGED << completed_calls, notebook, gridded_product_data,
                    pixel_groups, rate_of_surface_elevation_change_years,
                    m, ret >>

\* the entries put in ascending order of timestamp, then returned as
\* time_series_return returns them
time_series_return_sorted ==
    /\ pc = "ts_loop"
    /\ Len(weighted_mean_timeseries) = Len(unique_timestamps)
    /\ pc' = "returned"
    /\ LET at == AscendingPositions(unique_timestamps)
       IN  ret' = [ weighted_mean_timeseries |->
                        [ j \in 1..Len(at) |-> weighted_mean_timeseries[at[j]] ],
                    weighted_mean_errors |->
                        [ j \in 1..Len(at) |-> weighted_mean_errors[at[j]] ],
                    dates |-> [ j \in 1..Len(at) |->
                                  fromtimestamp(unique_timestamps[at[j]]) ] ]
    /\ UNCHANGED << completed_calls, notebook,
                    gridded_product_data, fn, exception, unique_timestamps,
                    reference_dem, weighted_mean_timeseries,
                    weighted_mean_errors, pixel_groups,
                    rate_of_surface_elevation_change_years, m >>

\* calculate_rate_of_change_map called a first time, or once more: the
\* groups are visited in any order
call_rate_of_change_any_order ==
    /\ pc = "idle"
    /\ \A c \in 1..Len(completed_calls) :
          completed_calls[c].fn = "calculate_rate_of_change_map"
    /\ fn' = "calculate_rate_of_change_map"
    /\ pc' = "roc_loop"
    /\ pixel_groups' \in Orderings(Range(groupby_geometry(gridded_product_data)))
    /\ rate_of_surface_elevation_change_years' = << >>
    /\ UNCHANGED << completed_calls, notebook,
                    gridded_product_data, exception, unique_timestamps,
                    reference_dem, weighted_mean_timeseries,
                    weighted_mean_errors, m, ret >>

NextAnyOrder ==
    \/ call_time_series_any_order
    \/ time_series_loop_body
    \/ time_series_return_sorted
    \/ call_rate_of_change_any_order
    \/ rate_of_change_loop_body
    \/ rate_of_change_return
    \/ call_again

\* the rows of the tables: the elevation of the first location varies, that
\* of the second is 0 throughout
RowsAnyOrder ==
    { r \in RowsOneUncertainty : r.geometry = <<0, 0>> \/ r.elevation = 0 }

InitAnyOrder ==
    /\ gridded_product_data \in Tables(RowsAnyOrder, MaxRows)
    /\ InitLocals

SpecAnyOrder == InitAnyOrder /\ [][NextAnyOrder]_vars

---------------------------------------------------------------------------
(* The cells that map the elevation difference over Iceland.               *)

\* the orders DataFrame.sort_values(['timestamp']) can leave the rows in:
\* ascending by timestamp; the default sort (quicksort) is not stable, so
\* rows of one timestamp come out in any order
sort_values_orders(tbl) ==
    { srt \in { [ j \in 1..Len(tbl) |-> tbl[f[j]] ] :
                  f \in Orderings(1..Len(tbl)) } :
        \A j \in 1..Len(srt) - 1 : srt[j].timestamp <= srt[j + 1].timestamp }

\* mutant of iloc_0: the last row is taken
iloc_last(tbl) == tbl[Len(tbl)]

\* DataFrame.iloc[0]
iloc_0(tbl) == tbl[1]

\* df[df['source_id'] == source_id]
RowsOfSource(tbl, source_id) ==
    LET Of(r) == r.source_id = source_id IN SelectSeq(tbl, Of)

\* the rows of right on the (point) geometry of one left row, every column
\* the two frames share suffixed _left and _right
JoinOneLeftMap(l, right) ==
    LET Hit(r) == r.geometry = l.geometry
        hits == SelectSeq(right, Hit)
    IN  [ j \in 1..Len(hits) |->
            [ geometry        |-> l.geometry,
              timestamp_left  |-> l.timestamp,
              elevation_left  |-> l.elevation,
              source_id_left  |-> l.source_id,
              timestamp_right |-> hits[j].timestamp,
              elevation_right |-> hits[j].elevation,
              source_id_right |-> hits[j].source_id ] ]

\* jan_2012_data.sjoin(df=jan_2020_data, how='inner')
RECURSIVE sjoin_map(_, _)
sjoin_map(left, right) ==
    IF left = << >> THEN << >>
    ELSE JoinOneLeftMap(Head(left), right) \o sjoin_map(Tail(left), right)

\* merged_gdf['elevation_difference'] = elevation_right - elevation_left
with_elevation_difference(merged) ==
    [ j \in 1..Len(merged) |->
        [ geometry        |-> merged[j].geometry,
          timestamp_left  |-> merged[j].timestamp_left,
          elevation_left  |-> merged[j].elevation_left,
          source_id_left  |-> merged[j].source_id_left,
          timestamp_right |-> merged[j].timestamp_right,
          elevation_right |-> merged[j].elevation_right,
          source_id_right |-> merged[j].source_id_right,
          elevation_difference |-> elevation_difference(merged[j]) ] ]

\* the cell that sorts the two query results by timestamp (its plots bind
\* no name)
sort_query_results ==
    /\ pc = "cell_sort"
    /\ \E sorted_2012 \in sort_values_orders(notebook.gridded_product_data_2012),
          sorted_2020 \in sort_values_orders(notebook.gridded_product_data_2020) :
          notebook' = [ notebook EXCEPT !.gridded_product_data_2012 = sorted_2012,
                                        !.gridded_product_data_2020 = sorted_2020 ]
    /\ pc' = "cell_difference"
    /\ UNCHANGED << completed_calls, gridded_product_data, fn, exception,
                    unique_timestamps, reference_dem,
                    weighted_mean_timeseries, weighted_mean_errors,
                    pixel_groups, rate_of_surface_elevation_change_years,
                    m, ret >>

\* the cell that takes the first source of each year and maps the
\* difference; iloc[0] of an empty frame raises IndexError
map_elevation_difference ==
    /\ pc = "cell_difference"
    /\ IF notebook.gridded_product_data_2012 = << >>
          \/ notebook.gridded_product_data_2020 = << >>
       THEN /\ pc' = "raised"
            /\ exception' = "IndexError"
            /\ UNCHANGED notebook
       ELSE LET jan_2012_source_id ==
                    iloc_0(notebook.gridded_product_data_2012).source_id
                jan_2020_source_id ==
                    iloc_0(notebook.gridded_product_data_2020).source_id
                jan_2012_data == RowsOfSource(notebook.gridded_product_data_2012,
                                              jan_2012_source_id)
                jan_2020_data == RowsOfSource(notebook.gridded_product_data_2020,
                                              jan_2020_source_id)
            IN  /\ notebook' =
                      [ jan_2012_source_id |-> jan_2012_source_id,
                        jan_2020_source_id |-> jan_2020_source_id,
                        jan_2012_data |-> jan_2012_data,
                        jan_2020_data |-> jan_2020_data,
                        merged_gdf |-> with_elevation_difference(
                                          sjoin_map(jan_2012_data, jan_2020_data)) ]
                      @@ notebook
                /\ pc' = "cell_plot"
                /\ UNCHANGED exception
    /\ UNCHANGED << completed_calls, gridded_product_data, fn,
                    unique_timestamps, reference_dem,
                    weighted_mean_timeseries, weighted_mean_errors,
                    pixel_groups, rate_of_surface_elevation_change_years,
                    m, ret >>

NextMap ==
    \/ sort_query_results
    \/ map_elevation_difference

\* the largest number of rows of a query result of the map
MaxMapRows == 2

Rows2012 == [ geometry : Locations, timestamp : { 0, 1 }, source_id : { 1, 2 },
              elevation : { 1 } ]
Rows2020 == { r \in [ geometry : Locations, timestamp : { 0, 1 },
                      source_id : { 1, 2 }, elevation : { 0, 3 } ] :
                r.source_id = r.timestamp + 1 }

InitMap ==
    /\ \E data_2012 \in Tables(Rows2012, MaxMapRows),
          data_2020 \in Tables(Rows2020, MaxMapRows) :
          notebook = [ gridded_product_data_2012 |-> data_2012,
                       gridded_product_data_2020 |-> data_2020 ]
    /\ gridded_product_data = << >>
    /\ fn = "none"
    /\ pc = "cell_sort"
    /\ exception = "none"
    /\ unique_timestamps = << >>
    /\ reference_dem = << >>
    /\ weighted_mean_timeseries = << >>
    /\ weighted_mean_errors = << >>
    /\ pixel_groups = << >>
    /\ rate_of_surface_elevation_change_years = << >>
    /\ m = Unset
    /\ ret = << >>
    /\ completed_calls = << >>

SpecMap == InitMap /\ [][NextMap]_vars

---------------------------------------------------------------------------
(* The cells that draw the histogram of the point product's uncertainty.   *)

\* a < b, for two finite values
FLess(a, b) == a.n * b.d < b.n * a.d

NotNaN(s) == LET Is(x) == ~IsNaN(x) IN SelectSeq(s, Is)

\* np.nanmin, np.nanmax of a column holding at least one number
np_nanmin(s) ==
    CHOOSE x \in Range(NotNaN(s)) : \A y \in Range(NotNaN(s)) : ~FLess(y, x)
np_nanmax(s) ==
    CHOOSE x \in Range(NotNaN(s)) : \A y \in Range(NotNaN(s)) : ~FLess(x, y)

\* np.linspace(start, stop, num): num evenly spaced samples over
\* [start, stop], both ends taken in
np_linspace(start, stop, num) ==
    [ j \in 1..num |->
        IF j = num THEN stop
        ELSE FAdd(start, FMul(Num(j - 1),
                              FDiv(FSub(stop, start), Num(num - 1)))) ]

\* the counts of Axes.hist(x, bins=bins): one bin between each two
\* neighbouring edges, closed on the left, the last closed on both sides;
\* NaN falls in no bin
hist_counts(x, bins) ==
    [ b \in 1..Len(bins) - 1 |->
        Cardinality({ j \in 1..Len(x) :
            /\ ~IsNaN(x[j])
            /\ ~FLess(x[j], bins[b])
            /\ \/ FLess(x[j], bins[b + 1])
               \/ b = Len(bins) - 1 /\ ~FLess(bins[b + 1], x[j]) }) ]

\* bins = np.linspace(np.nanmin(...), np.nanmax(...), 40); np.nanmin of an
\* empty column raises ValueError
set_up_bins ==
    /\ pc = "cell_bins"
    /\ IF notebook.point_product_data = << >>
       THEN /\ pc' = "raised"
            /\ exception' = "ValueError"
            /\ UNCHANGED notebook
       ELSE /\ notebook' =
                 [ bins |-> np_linspace(np_nanmin(notebook.point_product_data),
                                        np_nanmax(notebook.point_product_data),
                                        40) ] @@ notebook
            /\ pc' = "cell_hist"
            /\ UNCHANGED exception
    /\ UNCHANGED << completed_calls, gridded_product_data, fn,
                    unique_timestamps, reference_dem,
                    weighted_mean_timeseries, weighted_mean_errors,
                    pixel_groups, rate_of_surface_elevation_change_years,
                    m, ret >>

\* a = axs.hist(point_product_data['uncertainty'], bins=bins, ...): the
\* counts and the edges
plot_histogram ==
    /\ pc = "cell_hist"
    /\ notebook' =
          [ a |-> [ n |-> hist_counts(notebook.point_product_data, notebook.bins),
                    bins |-> notebook.bins ] ] @@ notebook
    /\ pc' = "cell_end"
    /\ UNCHANGED << completed_calls, gridded_product_data, fn, exception,
                    unique_timestamps, reference_dem,
                    weighted_mean_timeseries, weighted_mean_errors,
                    pixel_groups, rate_of_surface_elevation_change_years,
                    m, ret >>

NextHistogram ==
    \/ set_up_bins
    \/ plot_histogram

\* the uncertainty column of the point product: at most MaxRows values, not
\* every one of them NaN
PointUncertainties == { NaN, Num(1), Num(2), Num(5) }

InitHistogram ==
    /\ \E column \in Tables(PointUncertainties, MaxRows) :
          /\ column = << >> \/ NotNaN(column) # << >>
          /\ notebook = [ point_product_data |-> column ]
    /\ gridded_product_data = << >>
    /\ fn = "none"
    /\ pc = "cell_bins"
    /\ exception = "none"
    /\ unique_timestamps = << >>
    /\ reference_dem = << >>
    /\ weighted_mean_timeseries = << >>
    /\ weighted_mean_errors = << >>
    /\ pixel_groups = << >>
    /\ rate_of_surface_elevation_change_years = << >>
    /\ m = Unset
    /\ ret = << >>
    /\ completed_calls = << >>

SpecHistogram == InitHistogram /\ [][NextHistogram]_vars

---------------------------------------------------------------------------
(* The cells of the Svalbard notebook that draw the glaciers of each surge *)
(* type, query their elevation data and plot it.  A dict is the sequence   *)
(* of its items in insertion order.                                        *)

surge_type_definitions ==
    << [ key |-> 0, value |-> "No evidence" ],
       [ key |-> 1, value |-> "Possible" ],
       [ key |-> 2, value |-> "Probable" ],
       [ key |-> 3, value |-> "Observed" ],
       [ key |-> 9, value |-> "Not assigned" ] >>

\* d.keys(), key in d, d[key] = value
keys(d) == [ j \in 1..Len(d) |-> d[j].key ]
dict_contains(d, key) == \E j \in 1..Len(d) : d[j].key = key
dict_setitem(d, key, value) ==
    IF dict_contains(d, key)
    THEN [ j \in 1..Len(d) |-> IF d[j].key = key
                               THEN [ key |-> key, value |-> value ] ELSE d[j] ]
    ELSE Append(d, [ key |-> key, value |-> value ])

\* cm.CMRmap(x) of a float x: entry int(x * 256) of the 256 colours of the
\* map, the last one for x = 1.0
cm_CMRmap(x) ==
    LET at == (x.n * 256) \div x.d
    IN  [ cmap |-> "CMRmap", entry |-> IF at > 255 THEN 255 ELSE at ]

\* Series.mean(): the mean of the values that are not NaN, NaN without any
Series_mean(s) ==
    LET IsNumber(x) == ~IsNaN(x)
        numbers == SelectSeq(s, IsNumber)
    IN  IF numbers = << >> THEN NaN ELSE FDiv(np_sum(numbers), Num(Len(numbers)))

\* round(x, 2) of a float: to the nearest hundredth, a tie to the even one
round_2(x) ==
    IF ~IsFinite(x) THEN x
    ELSE LET q == x.n * 100
             below == q \div x.d
             rest == q % x.d
         IN  IF 2 * rest < x.d THEN Fin(below, 100)
             ELSE IF 2 * rest > x.d THEN Fin(below + 1, 100)
             ELSE IF below % 2 = 0 THEN Fin(below, 100) ELSE Fin(below + 1, 100)

\* plt.subplots(nrows=2, ncols=2), flattened: the axes of the grid, blank
nrows == 2
ncols == 2
BlankAxes == [ title |-> "", rows |-> << >> ]
subplots_flatten(rows, cols) == [ j \in 1..(rows * cols) |-> BlankAxes ]

\* rgi_data[rgi_data.surge_type == surge_id]
polygons_of(rgi_data, surge_id) == { g \in rgi_data : g.surge_type = surge_id }

\* the first cell, up to its loop
boundaries_cell_start ==
    /\ pc = "cell_boundaries"
    /\ notebook' = [ legend_elements |-> << >>, glacier_polygons |-> << >>,
                     i |-> 0 ] @@ notebook
    /\ pc' = "boundaries_loop"
    /\ UNCHANGED << completed_calls, gridded_product_data, fn, exception,
                    unique_timestamps, reference_dem,
                    weighted_mean_timeseries, weighted_mean_errors,
                    pixel_groups, rate_of_surface_elevation_change_years,
                    m, ret >>

\* for i, (surge_id, surge_type) in enumerate(surge_type_definitions.items())
boundaries_loop_body ==
    /\ pc = "boundaries_loop"
    /\ notebook.i < Len(surge_type_definitions)
    /\ LET i == notebook.i
           surge_id == surge_type_definitions[i + 1].key
           surge_type == surge_type_definitions[i + 1].value
           polygons_for_surge_type == polygons_of(notebook.rgi_data, surge_id)
           color == cm_CMRmap(Fin(i + 1, Len(surge_type_definitions)))
       IN  IF polygons_for_surge_type # {}
           THEN notebook' =
                  [ notebook EXCEPT
                      !.glacier_polygons =
                          dict_setitem(@, surge_type, polygons_for_surge_type),
                      !.legend_elements =
                          Append(@, [ facecolor |-> color,
                                      label |-> << surge_type,
                                                   Cardinality(polygons_for_surge_type) >> ]),
                      !.i = i + 1 ]
           ELSE notebook' = [ notebook EXCEPT !.i = i + 1 ]
    /\ UNCHANGED << completed_calls, gridded_product_data, fn, pc, exception,
                    unique_timestamps, reference_dem,
                    weighted_mean_timeseries, weighted_mean_errors,
                    pixel_groups, rate_of_surface_elevation_change_years,
                    m, ret >>

\* the query cell, up to its loop
query_cell_start ==
    /\ pc = "boundaries_loop"
    /\ notebook.i = Len(surge_type_definitions)
    /\ notebook' = [ svalbard_eolis_data |-> << >>,
                     svalbard_data_sources |-> << >>, i |-> 0 ] @@ notebook
    /\ pc' = "query_loop"
    /\ UNCHANGED << completed_calls, gridded_product_data, fn, exception,
                    unique_timestamps, reference_dem,
                    weighted_mean_timeseries, weighted_mean_errors,
                    pixel_groups, rate_of_surface_elevation_change_years,
                    m, ret >>

\* what client.query_dataset can return for the glaciers of a surge type:
\* no point, one rising pixel, a rising and a level pixel
QueryPoint(p, ts, e) ==
    [ geometry |-> p, timestamp |-> ts, elevation |-> e, uncertainty |-> Num(1) ]
QueryResults ==
    { << >>,
      << QueryPoint(<<0, 0>>, 0, 0), QueryPoint(<<0, 0>>, 2, 1) >>,
      << QueryPoint(<<0, 0>>, 0, 0), QueryPoint(<<1, 0>>, 0, 1),
         QueryPoint(<<0, 0>>, 2, 1), QueryPoint(<<1, 0>>, 2, 1) >> }

\* mutant of query_loop_body: the surge types without glaciers are not
\* skipped
query_loop_body_unguarded ==
    /\ pc = "query_loop"
    /\ notebook.i < Len(surge_type_definitions)
    /\ LET surge_type == surge_type_definitions[notebook.i + 1].value
       IN  IF ~dict_contains(notebook.glacier_polygons, surge_type)
           THEN /\ pc' = "raised"
                /\ exception' = "KeyError"
                /\ UNCHANGED notebook
           ELSE /\ \E data \in QueryResults :
                     notebook' =
                       [ notebook EXCEPT
                           !.svalbard_eolis_data = dict_setitem(@, surge_type, data),
                           !.svalbard_data_sources =
                               dict_setitem(@, surge_type, sorted(unique(data))),
                           !.i = @ + 1 ]
                /\ UNCHANGED << pc, exception >>
    /\ UNCHANGED << completed_calls, gridded_product_data, fn,
                    unique_timestamps, reference_dem,
                    weighted_mean_timeseries, weighted_mean_errors,
                    pixel_groups, rate_of_surface_elevation_change_years,
                    m, ret >>

\* for surge_id, surge_type in surge_type_definitions.items(): a surge
\* type without glaciers is skipped; glacier_polygons[surge_type] of a
\* missing key would raise KeyError
query_loop_body ==
    /\ pc = "query_loop"
    /\ notebook.i < Len(surge_type_definitions)
    /\ LET surge_type == surge_type_definitions[notebook.i + 1].value
       IN  IF ~dict_contains(notebook.glacier_polygons, surge_type)
           THEN /\ notebook' = [ notebook EXCEPT !.i = @ + 1 ]
                /\ UNCHANGED << pc, exception >>
           ELSE /\ \E data \in QueryResults :
                     notebook' =
                       [ notebook EXCEPT
                           !.svalbard_eolis_data = dict_setitem(@, surge_type, data),
                           !.svalbard_data_sources =
                               dict_setitem(@, surge_type, sorted(unique(data))),
                           !.i = @ + 1 ]
                /\ UNCHANGED << pc, exception >>
    /\ UNCHANGED << completed_calls, gridded_product_data, fn,
                    unique_timestamps, reference_dem,
                    weighted_mean_timeseries, weighted_mean_errors,
                    pixel_groups, rate_of_surface_elevation_change_years,
                    m, ret >>

\* the cell of the time series plot, up to its loop
time_series_cell_start ==
    /\ pc = "query_loop"
    /\ notebook.i = Len(surge_type_definitions)
    /\ notebook' = [ lines |-> << >>, i |-> 0 ] @@ notebook
    /\ pc' = "time_series_plot_loop"
    /\ UNCHANGED << completed_calls, gridded_product_data, fn, exception,
                    unique_timestamps, reference_dem,
                    weighted_mean_timeseries, weighted_mean_errors,
                    pixel_groups, rate_of_surface_elevation_change_years,
                    m, ret >>

\* for i, (surge_type, gridded_product_data) in
\* enumerate(svalbard_eolis_data.items()): the time series of the surge
\* type is computed and drawn; calculate_time_series raises IndexError on
\* an empty table
time_series_plot_loop_body ==
    /\ pc = "time_series_plot_loop"
    /\ notebook.i < Len(notebook.svalbard_eolis_data)
    /\ LET i == notebook.i
           surge_type == notebook.svalbard_eolis_data[i + 1].key
           data == notebook.svalbard_eolis_data[i + 1].value
           color == cm_CMRmap(Fin(i + 1, Len(surge_type_definitions)))
       IN  IF data = << >>
           THEN /\ pc' = "raised"
                /\ exception' = "IndexError"
                /\ UNCHANGED notebook
           ELSE /\ notebook' =
                     [ notebook EXCEPT
                         !.lines = Append(@, [ label |-> surge_type, c |-> color,
                                               data |-> SequentialTimeSeries(data) ]),
                         !.i = i + 1 ]
                /\ UNCHANGED << pc, exception >>
    /\ UNCHANGED << completed_calls, gridded_product_data, fn,
                    unique_timestamps, reference_dem,
                    weighted_mean_timeseries, weighted_mean_errors,
                    pixel_groups, rate_of_surface_elevation_change_years,
                    m, ret >>

\* the cell of the rate of change maps, up to its loop
rate_map_cell_start ==
    /\ pc = "time_series_plot_loop"
    /\ notebook.i = Len(notebook.svalbard_eolis_data)
    /\ notebook' = [ axes |-> subplots_flatten(nrows, ncols),
                     mean_rate_of_change_for_surge_types |-> << >>,
                     i |-> 0 ] @@ notebook
    /\ pc' = "rate_map_loop"
    /\ UNCHANGED << completed_calls, gridded_product_data, fn, exception,
                    unique_timestamps, reference_dem,
                    weighted_mean_timeseries, weighted_mean_errors,
                    pixel_groups, rate_of_surface_elevation_change_years,
                    m, ret >>

\* the rates of the rows of a rate of change map, in its order
RatesOf(dhdt_gdf) ==
    [ j \in 1..Len(dhdt_gdf) |-> dhdt_gdf[j].rate_of_surface_elevation_change_years ]

\* calculate_rate_of_change_map(gridded_product_data): the groups in
\* sorted order of geometry
dhdt_gdf_of(data) ==
    LET groups == groupby_geometry(data)
    IN  [ j \in 1..Len(groups) |->
            [ geometry |-> groups[j].key,
              rate_of_surface_elevation_change_years |->
                  RateEntry(data, groups[j].key) ] ]

\* for i, (surge_type, gridded_product_data) in
\* enumerate(svalbard_eolis_data.items()): the mean rate is appended, then
\* the map drawn on axes[i], which raises IndexError past the last axis
rate_map_loop_body ==
    /\ pc = "rate_map_loop"
    /\ notebook.i < Len(notebook.svalbard_eolis_data)
    /\ LET i == notebook.i
           surge_type == notebook.svalbard_eolis_data[i + 1].key
           dhdt_gdf == dhdt_gdf_of(notebook.svalbard_eolis_data[i + 1].value)
           means == Append(notebook.mean_rate_of_change_for_surge_types,
                           Series_mean(RatesOf(dhdt_gdf)))
       IN  IF i >= Len(notebook.axes)
           THEN /\ notebook' =
                     [ notebook EXCEPT !.mean_rate_of_change_for_surge_types = means ]
                /\ pc' = "raised"
                /\ exception' = "IndexError"
           ELSE /\ notebook' =
                     [ notebook EXCEPT
                         !.mean_rate_of_change_for_surge_types = means,
                         !.axes = [ @ EXCEPT ![i + 1] =
                                      [ title |-> surge_type, rows |-> dhdt_gdf ] ],
                         !.i = i + 1 ]
                /\ UNCHANGED << pc, exception >>
    /\ UNCHANGED << completed_calls, gridded_product_data, fn,
                    unique_timestamps, reference_dem,
                    weighted_mean_timeseries, weighted_mean_errors,
                    pixel_groups, rate_of_surface_elevation_change_years,
                    m, ret >>

\* the cell of the bar chart: one bar per key of svalbard_eolis_data
bar_chart_cell ==
    /\ pc = "rate_map_loop"
    /\ notebook.i = Len(notebook.svalbard_eolis_data)
    /\ notebook' =
         [ rects |->
             [ j \in 1..Len(notebook.svalbard_eolis_data) |->
                 [ x |-> keys(notebook.svalbard_eolis_data)[j],
                   height |-> round_2(notebook.mean_rate_of_change_for_surge_types[j]),
                   color |-> cm_CMRmap(Fin((j - 1) + 1, Len(surge_type_definitions))) ] ] ]
         @@ notebook
    /\ pc' = "cell_end"
    /\ UNCHANGED << completed_calls, gridded_product_data, fn, exception,
                    unique_timestamps, reference_dem,
                    weighted_mean_timeseries, weighted_mean_errors,
                    pixel_groups, rate_of_surface_elevation_change_years,
                    m, ret >>

NextSvalbard ==
    \/ boundaries_cell_start
    \/ boundaries_loop_body
    \/ query_cell_start
    \/ query_loop_body
    \/ time_series_cell_start
    \/ time_series_plot_loop_body
    \/ rate_map_cell_start
    \/ rate_map_loop_body
    \/ bar_chart_cell

\* the glaciers rgi_data can hold: one of each surge type, two of 'Observed'
Glaciers ==
    [ rgi_id : { 1 }, surge_type : { 0, 1, 2, 3, 9 } ]
       \cup { [ rgi_id |-> 2, surge_type |-> 3 ] }

InitSvalbard ==
    /\ \E rgi_data \in SUBSET Glaciers : notebook = [ rgi_data |-> rgi_data ]
    /\ gridded_product_data = << >>
    /\ fn = "none"
    /\ pc = "cell_boundaries"
    /\ exception = "none"
    /\ unique_timestamps = << >>
    /\ reference_dem = << >>
    /\ weighted_mean_timeseries = << >>
    /\ weighted_mean_errors = << >>
    /\ pixel_groups = << >>
    /\ rate_of_surface_elevation_change_years = << >>
    /\ m = Unset
    /\ ret = << >>
    /\ completed_calls = << >>

SpecSvalbard == InitSvalbard /\ [][NextSvalbard]_vars

---------------------------------------------------------------------------
(* plot_gridded_product_per_source_id: one map per source of a query       *)
(* result, on a grid of subplots.                                          *)

\* the distinct source ids of tbl, in order of first appearance
RECURSIVE first_appearances(_)
first_appearances(tbl) ==
    IF tbl = << >> THEN << >>
    ELSE LET before == first_appearances(SubSeq(tbl, 1, Len(tbl) - 1))
             last == tbl[Len(tbl)].source_id
         IN  IF \E j \in 1..Len(before) : before[j] = last
             THEN before ELSE Append(before, last)

\* gridded_product_data.groupby(['source_id'], sort=False): the groups in
\* order of first appearance, the rows of a group in table order
groupby_source_id(tbl) ==
    [ j \in 1..Len(first_appearances(tbl)) |->
        [ key |-> first_appearances(tbl)[j],
          rows |-> RowsOfSource(tbl, first_appearances(tbl)[j]) ] ]

\* math.ceil(a / b) of two integers, b > 0
math_ceil_div(a, b) == (a + b - 1) \div b

\* plt.subplots(rows, cols) with squeeze=True: one Axes for a 1x1 grid, a
\* one-dimensional array for one row or one column, else a 2-D array
plt_subplots(rows, cols) ==
    [ kind |-> IF rows = 1 /\ cols = 1 THEN "Axes"
               ELSE IF rows = 1 \/ cols = 1 THEN "ndarray 1-D" ELSE "ndarray 2-D",
      flat |-> [ j \in 1..(rows * cols) |-> BlankAxes ] ]

\* datetime.fromtimestamp(x).date() of a float x, in UTC: the day
date_of(x) == (x.n \div x.d) \div 86400

\* the largest n_fig_cols of a call
MaxFigCols == 3

\* the function is called: the groups, the grid; plt.subplots raises
\* ValueError for 0 rows
call_plot_gridded_product_per_source_id ==
    /\ pc = "idle"
    /\ fn' = "plot_gridded_product_per_source_id"
    /\ \E n_fig_cols \in 1..MaxFigCols :
         LET grouped == groupby_source_id(gridded_product_data)
             n_fig_rows == math_ceil_div(Len(grouped), n_fig_cols)
         IN  IF n_fig_rows = 0
             THEN /\ notebook' = [ n_fig_cols |-> n_fig_cols,
                                   gridded_product_data_grouped_by_source_id |-> grouped,
                                   n_fig_rows |-> n_fig_rows ]
                  /\ pc' = "raised"
                  /\ exception' = "ValueError"
             ELSE /\ notebook' = [ n_fig_cols |-> n_fig_cols,
                                   gridded_product_data_grouped_by_source_id |-> grouped,
                                   n_fig_rows |-> n_fig_rows,
                                   axs |-> plt_subplots(n_fig_rows, n_fig_cols),
                                   i |-> 0 ]
                  /\ pc' = "plot_loop"
                  /\ UNCHANGED exception
    /\ UNCHANGED << completed_calls, gridded_product_data,
                    unique_timestamps, reference_dem,
                    weighted_mean_timeseries, weighted_mean_errors,
                    pixel_groups, rate_of_surface_elevation_change_years,
                    m, ret >>

\* for i, grp in enumerate(gridded_product_data_grouped_by_source_id):
\* axs.flatten() raises AttributeError when axs is one Axes
plot_loop_body ==
    /\ pc = "plot_loop"
    /\ notebook.i < Len(notebook.gridded_product_data_grouped_by_source_id)
    /\ LET i == notebook.i
           data_for_source_id ==
               notebook.gridded_product_data_grouped_by_source_id[i + 1].rows
           centre_date_of_product ==
               Series_mean([ j \in 1..Len(data_for_source_id) |->
                               Num(data_for_source_id[j].timestamp) ])
       IN  IF notebook.axs.kind = "Axes"
           THEN /\ pc' = "raised"
                /\ exception' = "AttributeError"
                /\ UNCHANGED notebook
           ELSE IF i >= Len(notebook.axs.flat)
           THEN /\ pc' = "raised"
                /\ exception' = "IndexError"
                /\ UNCHANGED notebook
           ELSE /\ notebook' =
                     [ notebook EXCEPT
                         !.axs.flat[i + 1] =
                             [ title |-> date_of(centre_date_of_product),
                               rows |-> data_for_source_id ],
                         !.i = i + 1 ]
                /\ UNCHANGED << pc, exception >>
    /\ UNCHANGED << completed_calls, gridded_product_data, fn,
                    unique_timestamps, reference_dem,
                    weighted_mean_timeseries, weighted_mean_errors,
                    pixel_groups, rate_of_surface_elevation_change_years,
                    m, ret >>

\* the loop is done: the function returns None
plot_return ==
    /\ pc = "plot_loop"
    /\ notebook.i = Len(notebook.gridded_product_data_grouped_by_source_id)
    /\ pc' = "returned"
    /\ UNCHANGED << completed_calls, notebook, gridded_product_data, fn,
                    exception, unique_timestamps, reference_dem,
                    weighted_mean_timeseries, weighted_mean_errors,
                    pixel_groups, rate_of_surface_elevation_change_years,
                    m, ret >>

NextPlotGrid ==
    \/ call_plot_gridded_product_per_source_id
    \/ plot_loop_body
    \/ plot_return

RowsPlotGrid == [ source_id : { 1, 2, 3 }, timestamp : { 0, 172800 } ]

InitPlotGrid ==
    /\ gridded_product_data \in Tables(RowsPlotGrid, MaxRows)
    /\ InitLocals

SpecPlotGrid == InitPlotGrid /\ [][NextPlotGrid]_vars

---------------------------------------------------------------------------
(* Properties.                                                             *)

TimeSeriesReturned == fn = "calculate_time_series" /\ pc = "returned"
RateOfChangeReturned == fn = "calculate_rate_of_change_map" /\ pc = "returned"

InputTimestamps ==
    { gridded_product_data[j].timestamp : j \in 1..Len(gridded_product_data) }
InputLocations ==
    { gridded_product_data[j].geometry : j \in 1..Len(gridded_product_data) }

ScenarioMeansAsClaimed(t0, t1) ==
    /\ ret.dates = << fromtimestamp(t0), fromtimestamp(t1) >>
    /\ ret.weighted_mean_timeseries = << Num(0), Num(-1) >>

\* C2 as stated: on the three-pixel scenario the result is
\* [(t0, 0, 0), (t1, -1, sqrt(1/3))].
C2_AsStated ==
    TimeSeriesReturned =>
      \A t0 \in Timestamps, t1 \in Timestamps :
        IsScenario(gridded_product_data, t0, t1) =>
          /\ ScenarioMeansAsClaimed(t0, t1)
          /\ ret.weighted_mean_errors[1] \in { Num(0), Root(Num(0)) }
          /\ ret.weighted_mean_errors[2] = Root(Fin(1, 3))

\* C2 amended: on the three-pixel scenario the result is
\* [(t0, 0, sqrt(2/3)), (t1, -1, sqrt(2/3))]: each of the three pairs has
\* the combined variance 1 + 1 = 2.
C2_ScenarioResult ==
    TimeSeriesReturned =>
      \A t0 \in Timestamps, t1 \in Timestamps :
        IsScenario(gridded_product_data, t0, t1) =>
          /\ ScenarioMeansAsClaimed(t0, t1)
          /\ ret.weighted_mean_errors = << Root(Fin(2, 3)), Root(Fin(2, 3)) >>

\* C2 witness: a return on the scenario, its rows not in pixel order
C2_Witness ==
    /\ TimeSeriesReturned
    /\ IsScenario(gridded_product_data, 0, 2)
    /\ gridded_product_data[1].geometry = <<0, 1>>
    /\ gridded_product_data[1].timestamp = 2

\* the rows of the input at its minimum timestamp
ReferenceSamples ==
    { j \in 1..Len(gridded_product_data) :
        \A q \in 1..Len(gridded_product_data) :
           gridded_product_data[j].timestamp <= gridded_product_data[q].timestamp }

\* C3 as stated: the entry of the reference timestamp has weighted mean 0
\* for every input.
C3_AsStated ==
    TimeSeriesReturned => ret.weighted_mean_timeseries[1] = Num(0)

\* C3 amended: the entry of the reference timestamp has weighted mean 0
\* when some reference sample has an uncertainty that is not NaN and no
\* reference sample has uncertainty zero; when the uncertainty of every
\* reference sample is NaN the entry is NaN.
C3_ReferenceMeanZero ==
    TimeSeriesReturned =>
      /\ ( /\ \E j \in ReferenceSamples : ~IsNaN(gridded_product_data[j].uncertainty)
           /\ \A j \in ReferenceSamples : gridded_product_data[j].uncertainty # Num(0) )
            => ret.weighted_mean_timeseries[1] = Num(0)
      /\ ( \A j \in ReferenceSamples : IsNaN(gridded_product_data[j].uncertainty) )
            => IsNaN(ret.weighted_mean_timeseries[1])

\* C3 witness: two reference samples of different elevation on one pixel,
\* paired with themselves and with each other, and a later timestamp
C3_Witness ==
    /\ TimeSeriesReturned
    /\ Len(gridded_product_data) = 3
    /\ Cardinality(ReferenceSamples) = 2
    /\ \E j \in ReferenceSamples, q \in ReferenceSamples :
          /\ gridded_product_data[j].elevation # gridded_product_data[q].elevation
          /\ gridded_product_data[j].uncertainty = Num(2)
          /\ gridded_product_data[q].uncertainty = Num(-1)
    /\ ret.weighted_mean_timeseries[1] = Num(0)

\* the timestamp of the j-th entry of the returned time series
EntryTimestamp(j) == ret.dates[j].datetime

\* no sample at timestamp ts lies on the pixel of a reference sample
EmptyJoin(ts) ==
    ~ \E j \in ReferenceSamples, q \in 1..Len(gridded_product_data) :
         /\ gridded_product_data[q].timestamp = ts
         /\ gridded_product_data[q].geometry = gridded_product_data[j].geometry

NeverRaisesOnSamples == gridded_product_data # << >> => pc # "raised"

\* C4 as stated: a timestamp with an empty join gets NaN as weighted mean
\* and NaN as propagated uncertainty.
C4_AsStated ==
    TimeSeriesReturned =>
      \A j \in 1..Len(ret.dates) :
        EmptyJoin(EntryTimestamp(j)) =>
          /\ IsNaN(ret.weighted_mean_timeseries[j])
          /\ IsNaN(ret.weighted_mean_errors[j])

\* C4 amended: an empty join does not fail the routine; the timestamp gets
\* NaN as weighted mean and +infinity as propagated uncertainty, and every
\* timestamp of the input still has its entry.
C4_EmptyJoinIsLocal ==
    /\ NeverRaisesOnSamples
    /\ TimeSeriesReturned =>
         /\ Len(ret.weighted_mean_timeseries) = Cardinality(InputTimestamps)
         /\ \A j \in 1..Len(ret.dates) :
              EmptyJoin(EntryTimestamp(j)) =>
                /\ IsNaN(ret.weighted_mean_timeseries[j])
                /\ ret.weighted_mean_errors[j] = PInf

\* C4 witness: three timestamps, the second without a pixel of the
\* reference, the third with one
C4_Witness ==
    /\ TimeSeriesReturned
    /\ Len(ret.dates) = 3
    /\ EmptyJoin(EntryTimestamp(2))
    /\ ~EmptyJoin(EntryTimestamp(3))
    /\ IsFinite(ret.weighted_mean_timeseries[3])

\* the paired observations of the j-th entry
PairsOfEntry(j) ==
    sjoin(reference_dem, RowsAtTimestamp(gridded_product_data, EntryTimestamp(j)))

IsValidUncertainty(u) == IsFinite(u) /\ u.n > 0
BothValid(row) ==
    IsValidUncertainty(row.uncertainty_left) /\ IsValidUncertainty(row.uncertainty_right)
NeitherMissing(row) ==
    ~IsNaN(row.uncertainty_left) /\ ~IsNaN(row.uncertainty_right)

\* C5 as stated: the values of a timestamp are those computed over the
\* pairs whose samples both have a finite, strictly positive uncertainty.
C5_AsStated ==
    /\ NeverRaisesOnSamples
    /\ TimeSeriesReturned =>
         \A j \in 1..Len(ret.dates) :
           /\ ret.weighted_mean_timeseries[j] =
                 weighted_mean(SelectSeq(PairsOfEntry(j), BothValid))
           /\ ret.weighted_mean_errors[j] =
                 error(SelectSeq(PairsOfEntry(j), BothValid))

\* C5 amended: a sample whose uncertainty is NaN (missing) is excluded: the
\* values of a timestamp are those computed over the pairs in which no
\* uncertainty is NaN, and the routine does not raise.  A zero or negative
\* uncertainty is not excluded.
C5_MissingUncertaintyExcluded ==
    /\ NeverRaisesOnSamples
    /\ TimeSeriesReturned =>
         \A j \in 1..Len(ret.dates) :
           /\ ret.weighted_mean_timeseries[j] =
                 weighted_mean(SelectSeq(PairsOfEntry(j), NeitherMissing))
           /\ ret.weighted_mean_errors[j] =
                 error(SelectSeq(PairsOfEntry(j), NeitherMissing))

\* C5 witness: a timestamp with a pair of missing uncertainty and a pair
\* without, whose weighted mean is a finite non-zero value
C5_Witness ==
    /\ TimeSeriesReturned
    /\ Len(ret.dates) = 2
    /\ \E a \in 1..Len(PairsOfEntry(2)), b \in 1..Len(PairsOfEntry(2)) :
          /\ ~NeitherMissing(PairsOfEntry(2)[a])
          /\ NeitherMissing(PairsOfEntry(2)[b])
    /\ IsFinite(ret.weighted_mean_timeseries[2])
    /\ ret.weighted_mean_timeseries[2] # Num(0)

\* C6 as stated: on an empty table neither routine returns a result, and
\* the error that leaves it is InvalidInput.
C6_AsStated ==
    gridded_product_data = << >> =>
      /\ pc # "returned"
      /\ pc = "raised" => exception = "InvalidInput"

\* C6 amended: on an empty table calculate_time_series fails with an
\* IndexError and calculate_rate_of_change_map returns an empty map without
\* failing.
C6_EmptyInput ==
    gridded_product_data = << >> =>
      /\ fn = "calculate_time_series" =>
            pc = "raised" /\ exception = "IndexError"
      /\ fn = "calculate_rate_of_change_map" =>
            /\ pc # "raised" /\ exception = "none"
            /\ pc = "returned" => ret = << >>

\* C6 witness: calculate_time_series has raised on the empty table
C6_Witness ==
    /\ gridded_product_data = << >>
    /\ fn = "calculate_time_series"
    /\ pc = "raised"

\* the distinct timestamps of the samples on pixel p
TimestampsAt(p) ==
    { gridded_product_data[j].timestamp :
        j \in { q \in 1..Len(gridded_product_data) :
                  gridded_product_data[q].geometry = p } }

\* C7 as stated: the returned map has an entry only for pixels with at
\* least 2 distinct timestamps.
C7_AsStated ==
    RateOfChangeReturned =>
      \A j \in 1..Len(ret) : Cardinality(TimestampsAt(ret[j].geometry)) >= 2

\* C7 amended: the returned map has an entry for every pixel, also for a
\* pixel with fewer than 2 distinct timestamps (a single sample included).
C7_SparsePixelsEmitted ==
    RateOfChangeReturned =>
      \A p \in InputLocations :
        Cardinality(TimestampsAt(p)) < 2 =>
          Cardinality({ j \in 1..Len(ret) : ret[j].geometry = p }) = 1

\* C7 witness: a pixel with one sample beside a pixel with two timestamps
C7_Witness ==
    /\ RateOfChangeReturned
    /\ Len(gridded_product_data) = 3
    /\ Len(ret) = 2
    /\ \E p \in InputLocations :
          Cardinality({ j \in 1..3 : gridded_product_data[j].geometry = p }) = 1
    /\ \E p \in InputLocations : Cardinality(TimestampsAt(p)) = 2

WithoutTimestamp(tbl, ts) == LET Keep(r) == r.timestamp # ts IN SelectSeq(tbl, Keep)
WithoutLocation(tbl, p) == LET Keep(r) == r.geometry # p IN SelectSeq(tbl, Keep)

\* the values of the other timestamps are those of the table without the
\* samples of the j-th timestamp
OtherTimestampsUnaffectedBy(j) ==
    \A q \in 1..Len(ret.dates) :
      q # j =>
        << ret.weighted_mean_timeseries[q], ret.weighted_mean_errors[q] >> =
           TimeSeriesEntry(WithoutTimestamp(gridded_product_data, EntryTimestamp(j)),
                           EntryTimestamp(q))

\* the rates of the other pixels are those of the table without the
\* samples of the j-th pixel
OtherPixelsUnaffectedBy(j) ==
    \A q \in 1..Len(ret) :
      q # j =>
        ret[q].rate_of_surface_elevation_change_years =
           RateEntry(WithoutLocation(gridded_product_data, ret[j].geometry),
                     ret[q].geometry)

\* C8 as stated: an undefined result of one group (a timestamp whose
\* weighted mean is NaN, a pixel with fewer than 2 timestamps) never aborts
\* the batch and leaves every other group's value what it would be without
\* the samples of that group.
C8_AsStated ==
    /\ NeverRaisesOnSamples
    /\ TimeSeriesReturned =>
         \A j \in 1..Len(ret.dates) :
           IsNaN(ret.weighted_mean_timeseries[j]) => OtherTimestampsUnaffectedBy(j)
    /\ RateOfChangeReturned =>
         \A j \in 1..Len(ret) :
           Cardinality(TimestampsAt(ret[j].geometry)) < 2 => OtherPixelsUnaffectedBy(j)

\* C8 amended: the same, for every group but the reference timestamp of
\* calculate_time_series, whose samples enter the value of every timestamp.
C8_FailureIsLocal ==
    /\ NeverRaisesOnSamples
    /\ TimeSeriesReturned =>
         \A j \in 2..Len(ret.dates) :
           IsNaN(ret.weighted_mean_timeseries[j]) => OtherTimestampsUnaffectedBy(j)
    /\ RateOfChangeReturned =>
         \A j \in 1..Len(ret) :
           Cardinality(TimestampsAt(ret[j].geometry)) < 2 => OtherPixelsUnaffectedBy(j)

\* C8 witness: the second of three timestamps is undefined, the third has
\* a value
C8_Witness ==
    /\ TimeSeriesReturned
    /\ Len(ret.dates) = 3
    /\ IsNaN(ret.weighted_mean_timeseries[2])
    /\ IsFinite(ret.weighted_mean_timeseries[3])
    /\ ret.weighted_mean_timeseries[3] # Num(0)

\* the group that the last pass of the pixel loop has fitted
FittedGroup == pixel_groups[Len(rate_of_surface_elevation_change_years)].rows

\* C9: for a pixel with exactly 2 samples (t1,e1), (t2,e2), t1 # t2, the
\* fitted slope m is (e2-e1)/(t2-t1), before it is rescaled.
C9_TwoPointSlope ==
    ( /\ pc = "roc_loop"
      /\ Len(rate_of_surface_elevation_change_years) >= 1
      /\ Len(FittedGroup) = 2
      /\ FittedGroup[1].timestamp # FittedGroup[2].timestamp )
    => m = Fin(FittedGroup[2].elevation - FittedGroup[1].elevation,
               FittedGroup[2].timestamp - FittedGroup[1].timestamp)

\* C9 witness: the samples (2, 0) and (0, 1) of one pixel, in this order,
\* fitted with the slope -1/2
C9_Witness ==
    /\ pc = "roc_loop"
    /\ Len(rate_of_surface_elevation_change_years) >= 1
    /\ Len(FittedGroup) = 2
    /\ FittedGroup[1].timestamp = 2 /\ FittedGroup[1].elevation = 0
    /\ FittedGroup[2].timestamp = 0 /\ FittedGroup[2].elevation = 1
    /\ m = Fin(-1, 2)

\* the samples on pixel p lie on the line c
LiesOnLine(p, c) ==
    \A j \in 1..Len(gridded_product_data) :
       gridded_product_data[j].geometry = p =>
          gridded_product_data[j].elevation =
             c.a * gridded_product_data[j].timestamp + c.b

\* C10: a pixel whose samples lie on a line elevation = a*t + b, with at
\* least 2 distinct timestamps, is reported with the rate a*60*60*24*365,
\* whatever the number of samples and the intercept b; every pixel has its
\* entry.
C10_LinearDataRecoversSlope ==
    RateOfChangeReturned =>
      /\ { ret[j].geometry : j \in 1..Len(ret) } = InputLocations
      /\ \A j \in 1..Len(ret) : \A c \in LineCoefficients :
           ( LiesOnLine(ret[j].geometry, c)
             /\ Cardinality(TimestampsAt(ret[j].geometry)) >= 2 )
           => ret[j].rate_of_surface_elevation_change_years =
                 Num(c.a * (60 * 60 * 24 * 365))

\* C10 witness: two pixels on lines of different slope, one of them with a
\* non-zero intercept and 3 samples
C10_Witness ==
    /\ RateOfChangeReturned
    /\ Len(ret) = 2
    /\ Len(gridded_product_data) = 4
    /\ \A p \in InputLocations : Cardinality(TimestampsAt(p)) >= 2
    /\ LiesOnLine(ret[1].geometry, [a |-> -1, b |-> 3])
    /\ LiesOnLine(ret[2].geometry, [a |-> 2, b |-> 0])
    /\ ret[1].rate_of_surface_elevation_change_years = Num(-31536000)
    /\ ret[2].rate_of_surface_elevation_change_years = Num(63072000)

\* the rows of the input at timestamp ts
SamplesAt(ts) ==
    { q \in 1..Len(gridded_product_data) : gridded_product_data[q].timestamp = ts }

\* the reference samples on the pixel at p
ReferenceSamplesOn(p) ==
    { j \in ReferenceSamples : gridded_product_data[j].geometry = p }

\* every sample of the j-th entry lies on one pixel with uncertainty unc
\* and one elevation, and the reference samples of that pixel have
\* uncertainty unc and an elevation lower by d
ConstantOffset(j, d, unc) ==
    /\ SamplesAt(EntryTimestamp(j)) # {}
    /\ \A q \in SamplesAt(EntryTimestamp(j)), q2 \in SamplesAt(EntryTimestamp(j)) :
          /\ gridded_product_data[q].geometry = gridded_product_data[q2].geometry
          /\ gridded_product_data[q].elevation = gridded_product_data[q2].elevation
          /\ gridded_product_data[q].uncertainty = unc
    /\ \A q \in SamplesAt(EntryTimestamp(j)) :
          /\ ReferenceSamplesOn(gridded_product_data[q].geometry) # {}
          /\ \A r \in ReferenceSamplesOn(gridded_product_data[q].geometry) :
                /\ gridded_product_data[r].uncertainty = unc
                /\ gridded_product_data[q].elevation
                      - gridded_product_data[r].elevation = d

ValidInputUncertainties ==
    { unc \in { gridded_product_data[q].uncertainty :
                  q \in 1..Len(gridded_product_data) } : IsValidUncertainty(unc) }
Offsets == { -1, 0, 1 }

\* C11 as stated: at a non-reference timestamp whose samples are at a
\* constant offset d with one uncertainty unc, the weighted mean is d and
\* the propagated uncertainty is sqrt(2)*unc, however many samples.
C11_AsStated ==
    TimeSeriesReturned =>
      \A j \in 2..Len(ret.dates), d \in Offsets, unc \in ValidInputUncertainties :
        ConstantOffset(j, d, unc) =>
          /\ ret.weighted_mean_timeseries[j] = Num(d)
          /\ ret.weighted_mean_errors[j] = np_sqrt(FMul(Num(2), FPow2(unc)))

\* C11 amended: with unc finite and strictly positive the weighted mean is
\* d for any number of samples, and the propagated uncertainty is
\* sqrt(2)*unc/sqrt(N), N being the number of paired observations (the
\* reference samples of the pixel times the samples of the timestamp): it
\* is sqrt(2)*unc only when there is one pair.
C11_ConstantOffset ==
    TimeSeriesReturned =>
      \A j \in 2..Len(ret.dates), d \in Offsets, unc \in ValidInputUncertainties :
        ConstantOffset(j, d, unc) =>
          LET pixels == { gridded_product_data[q].geometry :
                            q \in SamplesAt(EntryTimestamp(j)) }
              pairs == Cardinality(SamplesAt(EntryTimestamp(j)))
                         * Cardinality(UNION { ReferenceSamplesOn(p) : p \in pixels })
          IN  /\ ret.weighted_mean_timeseries[j] = Num(d)
              /\ ret.weighted_mean_errors[j] =
                    np_sqrt(FDiv(FMul(Num(2), FPow2(unc)), Num(pairs)))
              /\ pairs = 1 =>
                    ret.weighted_mean_errors[j] = np_sqrt(FMul(Num(2), FPow2(unc)))

\* C11 witness: two samples of one elevation one above the reference
\* sample, all of uncertainty 2: the mean is 1 and the uncertainty is 2,
\* not sqrt(8)
C11_Witness ==
    /\ TimeSeriesReturned
    /\ Len(ret.dates) = 2
    /\ ConstantOffset(2, 1, Num(2))
    /\ Cardinality(SamplesAt(EntryTimestamp(2))) = 2
    /\ ret.weighted_mean_timeseries[2] = Num(1)
    /\ ret.weighted_mean_errors[2] = Root(Num(4))

\* the squared combined uncertainty sigma^2 of a paired observation, and
\* its elevation difference
SigmaSquared(row) == FAdd(FPow2(row.uncertainty_right), FPow2(row.uncertainty_left))
SigmaPositive(row) == IsFinite(SigmaSquared(row)) /\ SigmaSquared(row).n > 0
SigmaNotNaN(row) == ~IsNaN(SigmaSquared(row))
Difference(row) == row.elevation_right - row.elevation_left

\* C12 as stated: when exactly one paired observation of a timestamp
\* contributes (has sigma > 0), the weighted mean is its difference and
\* the propagated uncertainty is its sigma.
C12_AsStated ==
    TimeSeriesReturned =>
      \A j \in 1..Len(ret.dates) :
        LET contributing == SelectSeq(PairsOfEntry(j), SigmaPositive)
        IN  Len(contributing) = 1 =>
              /\ ret.weighted_mean_timeseries[j] = Num(Difference(contributing[1]))
              /\ ret.weighted_mean_errors[j] = Root(SigmaSquared(contributing[1]))

\* C12 amended: when exactly one paired observation of a timestamp has a
\* sigma that is not NaN, and that sigma is strictly positive, the
\* weighted mean is its difference and the propagated uncertainty is its
\* sigma = sqrt(unc(t_i)^2 + unc(t_0)^2).
C12_SinglePair ==
    TimeSeriesReturned =>
      \A j \in 1..Len(ret.dates) :
        LET taken == SelectSeq(PairsOfEntry(j), SigmaNotNaN)
        IN  (Len(taken) = 1 /\ SigmaPositive(taken[1])) =>
              /\ ret.weighted_mean_timeseries[j] = Num(Difference(taken[1]))
              /\ ret.weighted_mean_errors[j] = Root(SigmaSquared(taken[1]))

\* C12 witness: a timestamp with two pairs, one of NaN sigma and one of
\* sigma sqrt(5) and difference -1
C12_Witness ==
    /\ TimeSeriesReturned
    /\ Len(ret.dates) = 2
    /\ Len(PairsOfEntry(2)) = 2
    /\ Len(SelectSeq(PairsOfEntry(2), SigmaNotNaN)) = 1
    /\ ret.weighted_mean_timeseries[2] = Num(-1)
    /\ ret.weighted_mean_errors[2] = Root(Num(5))

\* C13: a call of either routine returns what every earlier call of the
\* same routine on the same table returned: the entries are exactly
\* equal, no state of an earlier call reaches a later one.
C13_SameOutputOnRepeat ==
    pc = "returned" =>
      \A c \in 1..Len(completed_calls) :
        completed_calls[c].fn = fn => completed_calls[c].ret = ret

\* C13 witness: calculate_time_series has returned a second time, with
\* two entries, a call of calculate_rate_of_change_map or not in between
C13_Witness ==
    /\ TimeSeriesReturned
    /\ \E c \in 1..Len(completed_calls) :
          completed_calls[c].fn = "calculate_time_series"
    /\ Len(ret.dates) = 2
    /\ IsFinite(ret.weighted_mean_timeseries[2])
    /\ ret.weighted_mean_timeseries[2] # Num(0)

\* C14: no step of either routine changes the table it was given: the
\* rows, their columns and their order stay as they were; the derived
\* columns and the sort of a group are made on copies.
C14_InputUnchanged ==
    [][gridded_product_data' = gridded_product_data]_vars

\* C14 witness: both routines have returned on a table whose rows are not
\* in the order of their timestamps, and the table is still in that order
C14_Witness ==
    /\ pc = "returned"
    /\ completed_calls # << >>
    /\ completed_calls[1].fn # fn
    /\ Len(gridded_product_data) = 3
    /\ gridded_product_data[1].timestamp > gridded_product_data[2].timestamp
    /\ gridded_product_data[1].geometry = gridded_product_data[2].geometry
    /\ gridded_product_data # sort_values_by_timestamp(gridded_product_data)

\* C15: the map calculate_rate_of_change_map returns has exactly one
\* PixelTrend per distinct location of the input: each location of the
\* input once, and no location that the input does not have.
C15_OnePixelTrendPerLocation ==
    RateOfChangeReturned =>
      /\ Len(ret) = Cardinality(InputLocations)
      /\ \A p \in InputLocations :
            Cardinality({ j \in 1..Len(ret) : ret[j].geometry = p }) = 1
      /\ \A j \in 1..Len(ret) : ret[j].geometry \in InputLocations

\* C15 witness: three rows on two locations, one location twice, give a
\* map of two entries
C15_Witness ==
    /\ RateOfChangeReturned
    /\ Len(gridded_product_data) = 3
    /\ gridded_product_data[1].geometry = <<1, 0>>
    /\ gridded_product_data[2].geometry = <<0, 0>>
    /\ gridded_product_data[3].geometry = <<1, 0>>
    /\ Len(ret) = 2

\* C16 as stated: the histogram of the uncertainty has 40 bins, which span
\* the range from the smallest to the largest uncertainty.
C16_AsStated ==
    pc = "cell_end" =>
      /\ Len(notebook.a.n) = 40
      /\ notebook.a.bins[1] = np_nanmin(notebook.point_product_data)
      /\ notebook.a.bins[Len(notebook.a.bins)] =
            np_nanmax(notebook.point_product_data)

\* the source ids of the rows of tbl that have its earliest timestamp
EarliestSources(tbl) ==
    { tbl[j].source_id : j \in { q \in 1..Len(tbl) :
         \A q2 \in 1..Len(tbl) : tbl[q].timestamp <= tbl[q2].timestamp } }

\* the rows of tbl (as a bag: row -> number of copies) of one source
CopiesOfSource(tbl, source_id, r) ==
    IF r.source_id = source_id
    THEN Cardinality({ j \in 1..Len(tbl) : tbl[j] = r })
    ELSE 0
Copies(tbl, r) == Cardinality({ j \in 1..Len(tbl) : tbl[j] = r })
CopiesOn(tbl, p) == Cardinality({ j \in 1..Len(tbl) : tbl[j].geometry = p })

\* C17: the map compares, of each query result, the rows whose source_id
\* is that of a row of earliest timestamp; every plotted value is
\* elevation(2020) - elevation(2012) of a 2012 row and a 2020 row on one
\* location; each such pair is plotted, and a location that only one of
\* the two row sets has is not.
C17_ElevationDifferenceMap ==
    pc = "cell_plot" =>
      /\ notebook.jan_2012_source_id
            \in EarliestSources(notebook.gridded_product_data_2012)
      /\ notebook.jan_2020_source_id
            \in EarliestSources(notebook.gridded_product_data_2020)
      /\ \A r \in Rows2012 :
            Copies(notebook.jan_2012_data, r) =
               CopiesOfSource(notebook.gridded_product_data_2012,
                              notebook.jan_2012_source_id, r)
      /\ \A r \in Rows2020 :
            Copies(notebook.jan_2020_data, r) =
               CopiesOfSource(notebook.gridded_product_data_2020,
                              notebook.jan_2020_source_id, r)
      /\ \A j \in 1..Len(notebook.merged_gdf) :
            LET row == notebook.merged_gdf[j]
            IN  /\ row.source_id_left = notebook.jan_2012_source_id
                /\ row.source_id_right = notebook.jan_2020_source_id
                /\ \E l \in Range(notebook.jan_2012_data),
                      r \in Range(notebook.jan_2020_data) :
                      /\ l.geometry = row.geometry /\ r.geometry = row.geometry
                      /\ l.elevation = row.elevation_left
                      /\ r.elevation = row.elevation_right
                      /\ row.elevation_difference = Num(r.elevation - l.elevation)
      /\ \A p \in Locations :
            CopiesOn(notebook.merged_gdf, p) =
               CopiesOn(notebook.jan_2012_data, p) * CopiesOn(notebook.jan_2020_data, p)

\* C17 witness: the 2012 result holds two sources at its earliest
\* timestamp, on two locations; the 2020 result an early source on one of
\* them and a later source on the other: one difference, 3 - 1, is plotted
C17_Witness ==
    /\ pc = "cell_plot"
    /\ Len(notebook.gridded_product_data_2012) = 2
    /\ Len(notebook.gridded_product_data_2020) = 2
    /\ Cardinality(EarliestSources(notebook.gridded_product_data_2012)) = 2
    /\ Len(notebook.jan_2012_data) = 1
    /\ Len(notebook.jan_2020_data) = 1
    /\ Len(notebook.merged_gdf) = 1
    /\ notebook.merged_gdf[1].elevation_difference = Num(2)
    /\ \E j \in 1..2 : notebook.gridded_product_data_2020[j].geometry
                          # notebook.merged_gdf[1].geometry

\* the (reference sample, sample at the j-th timestamp) pairs of rows of
\* the input that lie on one location
PairedRows(j) ==
    { lr \in ReferenceSamples \X SamplesAt(EntryTimestamp(j)) :
        gridded_product_data[lr[1]].geometry = gridded_product_data[lr[2]].geometry }

\* the sum of 1/(unc_left^2 + unc_right^2) over a set of pairs of rows
RECURSIVE SumOfWeights(_)
SumOfWeights(S) ==
    IF S = {} THEN Num(0)
    ELSE LET lr == CHOOSE x \in S : TRUE
         IN  FAdd(FDiv(Num(1), FAdd(FPow2(gridded_product_data[lr[1]].uncertainty),
                                    FPow2(gridded_product_data[lr[2]].uncertainty))),
                  SumOfWeights(S \ { lr }))

\* C18: the paired observations of a timestamp are the inner join of the
\* reference samples and the samples of the timestamp on equal location:
\* k reference samples and m samples on a location make k*m pairs (all of
\* which weigh in the propagated uncertainty), and a location that only
\* one of the two sets has makes none.
C18_PairsAreInnerJoin ==
    TimeSeriesReturned =>
      \A j \in 1..Len(ret.dates) :
        LET pairs == PairsOfEntry(j)
            paired == PairedRows(j)
            samples == SamplesAt(EntryTimestamp(j))
        IN  /\ \A p \in Locations :
                  Cardinality({ q \in 1..Len(pairs) : pairs[q].geometry = p })
                    = Cardinality(ReferenceSamplesOn(p))
                        * Cardinality({ q \in samples :
                                          gridded_product_data[q].geometry = p })
            /\ Len(pairs) = Cardinality(paired)
            /\ ret.weighted_mean_errors[j] =
                  np_sqrt(FDiv(Num(1), SumOfWeights(paired)))

\* C18 witness: one reference sample and two samples of a later timestamp
\* on one location, uncertainties 1, 1 and 2: two pairs, of weights 1/2
\* and 1/5
C18_Witness ==
    /\ TimeSeriesReturned
    /\ Len(ret.dates) = 2
    /\ Cardinality(ReferenceSamples) = 1
    /\ Len(PairsOfEntry(2)) = 2
    /\ ret.weighted_mean_errors[2] = Root(Fin(10, 7))

\* the sum of (elevation(t_i) - elevation(t_0)) / (unc(t_i)^2 + unc(t_0)^2)
\* over a set of (reference row, row at t_i) pairs
RECURSIVE SumOfWeightedDifferences(_)
SumOfWeightedDifferences(S) ==
    IF S = {} THEN Num(0)
    ELSE LET lr == CHOOSE x \in S : TRUE
             at_t0 == gridded_product_data[lr[1]]
             at_ti == gridded_product_data[lr[2]]
         IN  FAdd(FDiv(Num(at_ti.elevation - at_t0.elevation),
                       FAdd(FPow2(at_ti.uncertainty), FPow2(at_t0.uncertainty))),
                  SumOfWeightedDifferences(S \ { lr }))

\* C19: in every paired observation the reference sample is a sample of
\* the minimum timestamp of the input and the other sample one of the
\* entry's timestamp; its difference is elevation(t_i) - elevation(t_0),
\* its combined uncertainty sqrt(unc(t_i)^2 + unc(t_0)^2), and the
\* weighted mean is that of these differences.
C19_DifferenceToReference ==
    TimeSeriesReturned =>
      \A j \in 1..Len(ret.dates) :
        LET pairs == PairsOfEntry(j)
            paired == PairedRows(j)
            t_0 == CHOOSE t \in InputTimestamps : \A t2 \in InputTimestamps : t <= t2
        IN  /\ \A q \in 1..Len(pairs) :
                  LET row == pairs[q]
                  IN  /\ row.timestamp_left = t_0
                      /\ row.timestamp_right = EntryTimestamp(j)
                      /\ \E lr \in paired :
                            LET at_t0 == gridded_product_data[lr[1]]
                                at_ti == gridded_product_data[lr[2]]
                            IN  /\ row.geometry = at_ti.geometry
                                /\ row.elevation_left = at_t0.elevation
                                /\ row.elevation_right = at_ti.elevation
                                /\ row.uncertainty_left = at_t0.uncertainty
                                /\ row.uncertainty_right = at_ti.uncertainty
                                /\ elevation_difference(row) =
                                      Num(at_ti.elevation - at_t0.elevation)
                                /\ elevation_difference_unc(row) =
                                      Root(FAdd(FPow2(at_ti.uncertainty),
                                                FPow2(at_t0.uncertainty)))
            /\ ret.weighted_mean_timeseries[j] =
                  FDiv(SumOfWeightedDifferences(paired), SumOfWeights(paired))

\* C19 witness: one pixel at elevation 1, then 0, then 0: the second and
\* the third entry are both -1, each taken to the first timestamp
C19_Witness ==
    /\ TimeSeriesReturned
    /\ Len(ret.dates) = 3
    /\ ret.weighted_mean_timeseries[2] = Num(-1)
    /\ ret.weighted_mean_timeseries[3] = Num(-1)
    /\ \E q \in 1..3 : /\ gridded_product_data[q].timestamp = 0
                       /\ gridded_product_data[q].uncertainty = Num(1)
    /\ \E q \in 1..3 : /\ gridded_product_data[q].timestamp = 2
                       /\ gridded_product_data[q].uncertainty = Num(2)
    /\ ret.weighted_mean_errors[3] = Root(Num(5))

\* sigma^2 = unc(t_i)^2 + unc(t_0)^2 of a (reference row, row at t_i) pair
SigmaSquaredOf(lr) ==
    FAdd(FPow2(gridded_product_data[lr[2]].uncertainty),
         FPow2(gridded_product_data[lr[1]].uncertainty))

\* the pairs of rows of the j-th entry with sigma > 0, with sigma = 0
PairedRowsSigmaPositive(j) ==
    { lr \in PairedRows(j) : IsFinite(SigmaSquaredOf(lr)) /\ SigmaSquaredOf(lr).n > 0 }
PairedRowsSigmaZero(j) ==
    { lr \in PairedRows(j) : SigmaSquaredOf(lr) = Num(0) }

\* the j-th entry is sum(diff/sigma^2) / sum(1/sigma^2) and
\* sqrt(1 / sum(1/sigma^2)), the sums over the pairs with sigma > 0
SumsOverSigmaPositive(j) ==
    /\ ret.weighted_mean_timeseries[j] =
          FDiv(SumOfWeightedDifferences(PairedRowsSigmaPositive(j)),
               SumOfWeights(PairedRowsSigmaPositive(j)))
    /\ ret.weighted_mean_errors[j] =
          np_sqrt(FDiv(Num(1), SumOfWeights(PairedRowsSigmaPositive(j))))

\* C20 as stated: the weighted mean is sum(diff_j/sigma_j^2) /
\* sum(1/sigma_j^2) and the propagated uncertainty sqrt(1 /
\* sum(1/sigma_j^2)), both sums over exactly the pairs with sigma_j > 0.
C20_AsStated ==
    TimeSeriesReturned =>
      \A j \in 1..Len(ret.dates) : SumsOverSigmaPositive(j)

\* C20 amended: so it is for a timestamp none of whose pairs has
\* sigma_j = 0 (pairs of NaN sigma are left out of both sums).  A pair
\* with sigma_j = 0 is not left out: it weighs infinitely, the propagated
\* uncertainty is 0 and the weighted mean 0 or NaN.
C20_WeightedSums ==
    TimeSeriesReturned =>
      \A j \in 1..Len(ret.dates) :
        IF PairedRowsSigmaZero(j) = {}
        THEN SumsOverSigmaPositive(j)
        ELSE /\ ret.weighted_mean_errors[j] = Root(Num(0))
             /\ \/ IsNaN(ret.weighted_mean_timeseries[j])
                \/ ret.weighted_mean_timeseries[j] = Num(0)

\* C20 witness: a pair of difference 1 and sigma^2 8 and a pair of
\* difference 0 and sigma^2 4 give the mean 1/3 and the uncertainty
\* sqrt(8/3)
C20_Witness ==
    /\ TimeSeriesReturned
    /\ Len(ret.dates) = 2
    /\ Cardinality(PairedRowsSigmaPositive(2)) = 2
    /\ ret.weighted_mean_timeseries[2] = Fin(1, 3)
    /\ ret.weighted_mean_errors[2] = Root(Fin(8, 3))

\* C21: the rate appended by a pass of the pixel loop is the slope m that
\* the pass fitted, in meters per second, times exactly 31536000 =
\* 60*60*24*365, and the returned map holds the appended rates as they
\* are: the factor is applied once.
C21_RescaledOnce ==
    /\ ( pc = "roc_loop" /\ Len(rate_of_surface_elevation_change_years) >= 1 ) =>
         /\ m = lstsq_m(sort_values_by_timestamp(FittedGroup))
         /\ rate_of_surface_elevation_change_years[
                Len(rate_of_surface_elevation_change_years)]
              = Fin(m.n * 31536000, m.d)
    /\ RateOfChangeReturned =>
         /\ Len(ret) = Len(rate_of_surface_elevation_change_years)
         /\ \A j \in 1..Len(ret) :
               ret[j].rate_of_surface_elevation_change_years
                  = rate_of_surface_elevation_change_years[j]

\* C21 witness: a pixel fitted with the slope -1/2 m/s is returned with
\* -15768000 m/year
C21_Witness ==
    /\ RateOfChangeReturned
    /\ m = Fin(-1, 2)
    /\ ret[Len(ret)].rate_of_surface_elevation_change_years = Num(-15768000)

\* the tables that hold the rows of tbl in another order
RowOrders(tbl) ==
    { [ j \in 1..Len(tbl) |-> tbl[f[j]] ] : f \in Orderings(1..Len(tbl)) }

\* the rate the returned map reports for the pixel at p
ReportedRate(p) ==
    LET j == CHOOSE q \in 1..Len(ret) : ret[q].geometry = p
    IN  ret[j].rate_of_surface_elevation_change_years

\* C22: the map returned for a table is the map of every permutation of
\* its rows: each location has the rate it would have with the rows in
\* any other order, which is also the rate fitted on its rows unsorted.
C22_RowOrderImmaterial ==
    RateOfChangeReturned =>
      \A p \in InputLocations :
        /\ \A permuted \in RowOrders(gridded_product_data) :
              RateEntry(permuted, p) = ReportedRate(p)
        /\ LET In(r) == r.geometry = p
           IN  ReportedRate(p) =
                  rescale_to_years(lstsq_m(SelectSeq(gridded_product_data, In)))

\* C22 witness: a pixel whose three rows come in descending order of
\* timestamp, with a rate other than 0
C22_Witness ==
    /\ RateOfChangeReturned
    /\ Len(gridded_product_data) = 3
    /\ Len(ret) = 1
    /\ gridded_product_data[1].timestamp = 2
    /\ gridded_product_data[2].timestamp = 1
    /\ gridded_product_data[3].timestamp = 0
    /\ ret[1].rate_of_surface_elevation_change_years = Num(15768000)


FLessEq(a, b) == ~FLess(b, a)

\* C25: for a timestamp with at least one pair, every pair of combined
\* sigma finite and > 0, the weighted mean is finite and lies between the
\* smallest and the largest difference of the pairs, both included; the
\* uncertainty is the root of a finite number > 0 that is at most the
\* smallest sigma squared.
C25_MeanAndUncertaintyBounded ==
    TimeSeriesReturned =>
      \A j \in 1..Len(ret.dates) :
        LET pairs == PairsOfEntry(j)
            mean == ret.weighted_mean_timeseries[j]
            unc == ret.weighted_mean_errors[j]
        IN  ( Len(pairs) >= 1 /\ \A k \in 1..Len(pairs) : SigmaPositive(pairs[k]) ) =>
              /\ IsFinite(mean)
              /\ \E k \in 1..Len(pairs) : FLessEq(Num(Difference(pairs[k])), mean)
              /\ \E k \in 1..Len(pairs) : FLessEq(mean, Num(Difference(pairs[k])))
              /\ unc.k = "root" /\ unc.n > 0 /\ unc.d > 0
              /\ \A k \in 1..Len(pairs) :
                    FLessEq(Fin(unc.n, unc.d), SigmaSquared(pairs[k]))

\* C25 witness: a timestamp with two pairs of differences 0 and 1 and of
\* unlike sigma; the mean lies strictly between the two and the variance
\* strictly below both sigma squared
C25_Witness ==
    /\ TimeSeriesReturned
    /\ \E j \in 1..Len(ret.dates) :
         LET pairs == PairsOfEntry(j)
             mean == ret.weighted_mean_timeseries[j]
             unc == ret.weighted_mean_errors[j]
         IN  /\ Len(pairs) = 2
             /\ SigmaPositive(pairs[1]) /\ SigmaPositive(pairs[2])
             /\ SigmaSquared(pairs[1]) # SigmaSquared(pairs[2])
             /\ Difference(pairs[1]) = 0 /\ Difference(pairs[2]) = 1
             /\ FLess(Num(0), mean) /\ FLess(mean, Num(1))
             /\ unc.k = "root"
             /\ FLess(Fin(unc.n, unc.d), SigmaSquared(pairs[1]))
             /\ FLess(Fin(unc.n, unc.d), SigmaSquared(pairs[2]))


\* C24: the returned map has one row per group the loop visited, in the
\* order of the visits: its j-th geometry is the key of the j-th group and
\* its j-th rate the slope fitted on the rows of that group, which are the
\* rows of the table at that geometry.
C24_SlopeOnItsGeometry ==
    /\ ( pc = "roc_loop" /\ Len(rate_of_surface_elevation_change_years) >= 1 ) =>
         LET j == Len(rate_of_surface_elevation_change_years)
             At(r) == r.geometry = pixel_groups[j].key
         IN  /\ pixel_groups[j].rows = SelectSeq(gridded_product_data, At)
             /\ rate_of_surface_elevation_change_years[j] =
                   rescale_to_years(lstsq_m(sort_values_by_timestamp(pixel_groups[j].rows)))
    /\ RateOfChangeReturned =>
         /\ Len(ret) = Len(pixel_groups)
         /\ \A j \in 1..Len(ret) :
              /\ ret[j].geometry = pixel_groups[j].key
              /\ ret[j].rate_of_surface_elevation_change_years =
                    RateEntry(gridded_product_data, ret[j].geometry)

\* C24 witness: two locations, the first flat and the second rising by 1
\* a second, each reported with its own rate
C24_Witness ==
    /\ RateOfChangeReturned
    /\ Len(ret) = 2
    /\ ret[1].geometry = <<0, 0>>
    /\ ret[1].rate_of_surface_elevation_change_years = Num(0)
    /\ ret[2].geometry = <<1, 0>>
    /\ ret[2].rate_of_surface_elevation_change_years = Num(31536000)


\* the names of the first n surge types of surge_type_definitions that
\* have a glacier in rgi_data, in the order of the definitions
SurgeTypesWithGlaciers(n) ==
    LET HasGlacier(item) == \E g \in notebook.rgi_data : g.surge_type = item.key
    IN  keys([ j \in 1..Len(SelectSeq(SubSeq(surge_type_definitions, 1, n), HasGlacier)) |->
                 [ key |-> SelectSeq(SubSeq(surge_type_definitions, 1, n), HasGlacier)[j].value,
                   value |-> 0 ] ])

AllSurgeTypesWithGlaciers == SurgeTypesWithGlaciers(Len(surge_type_definitions))

\* the query loop is done
Queried == "svalbard_eolis_data" \in DOMAIN notebook /\ pc # "query_loop"

\* C26: after i passes of the query loop the surge types queried are the
\* ones among the first i definitions that have a glacier; after the loop
\* the keys of svalbard_eolis_data and svalbard_data_sources are the same,
\* are the keys of glacier_polygons and come in the order of
\* surge_type_definitions; glacier_polygons is never looked up for a surge
\* type without polygons (no KeyError).
C26_QueriedSurgeTypes ==
    /\ exception # "KeyError"
    /\ pc = "query_loop" =>
         /\ keys(notebook.svalbard_eolis_data) = SurgeTypesWithGlaciers(notebook.i)
         /\ keys(notebook.svalbard_data_sources) = SurgeTypesWithGlaciers(notebook.i)
    /\ Queried =>
         /\ keys(notebook.svalbard_eolis_data) = keys(notebook.svalbard_data_sources)
         /\ keys(notebook.svalbard_eolis_data) = keys(notebook.glacier_polygons)
         /\ keys(notebook.svalbard_eolis_data) = AllSurgeTypesWithGlaciers

\* C26 witness: glaciers of 'Possible' (one) and 'Observed' (two) only,
\* both queried, with unlike results
C26_Witness ==
    /\ Queried
    /\ keys(notebook.svalbard_eolis_data) = << "Possible", "Observed" >>
    /\ Cardinality(notebook.glacier_polygons[2].value) = 2
    /\ Len(notebook.svalbard_eolis_data[1].value) = 2
    /\ Len(notebook.svalbard_eolis_data[2].value) = 4

\* a pass of the rate of change map loop has run
RateMapDrawn == "mean_rate_of_change_for_surge_types" \in DOMAIN notebook

\* C27 as stated: the rate of change map loop never indexes past the grid:
\* whichever surge types have glaciers, every dataset the loop has taken
\* is drawn on an axis of its own of the 2x2 grid.
C27_AsStated ==
    RateMapDrawn =>
      /\ Len(notebook.mean_rate_of_change_for_surge_types) <= Len(notebook.axes)
      /\ \A j \in 1..Len(notebook.mean_rate_of_change_for_surge_types) :
            j <= Len(notebook.axes)
            /\ notebook.axes[j].title = keys(notebook.svalbard_eolis_data)[j]

\* the colour of a surge type in the legend of the boundary map
BoundaryColour(surge_type) ==
    LET j == CHOOSE q \in 1..Len(notebook.legend_elements) :
                 notebook.legend_elements[q].label[1] = surge_type
    IN  notebook.legend_elements[j].facecolor

\* C28 as stated: whichever surge types have glaciers, each surge type has
\* in the time series plot and in the bar chart the colour it has in the
\* boundary map.
C28_AsStated ==
    /\ "lines" \in DOMAIN notebook =>
         \A j \in 1..Len(notebook.lines) :
            notebook.lines[j].c = BoundaryColour(notebook.lines[j].label)
    /\ "rects" \in DOMAIN notebook =>
         \A j \in 1..Len(notebook.rects) :
            notebook.rects[j].color = BoundaryColour(notebook.rects[j].x)


\* C29 as stated: for every table with at least one group and every
\* n_fig_cols >= 1 the grid has ceil(ngroups / n_fig_cols) rows of
\* n_fig_cols axes, at least as many axes as groups, and the loop draws
\* group i on flattened axis i, the groups taken in order of first
\* appearance of their source id; no pass raises.
C29_AsStated ==
    ( fn = "plot_gridded_product_per_source_id" /\ gridded_product_data # << >> ) =>
      LET grouped == notebook.gridded_product_data_grouped_by_source_id
      IN  /\ pc # "raised"
          /\ notebook.n_fig_rows * notebook.n_fig_cols >= Len(grouped)
          /\ ( notebook.n_fig_rows - 1 ) * notebook.n_fig_cols < Len(grouped)
          /\ Len(notebook.axs.flat) = notebook.n_fig_rows * notebook.n_fig_cols
          /\ keys(grouped) = first_appearances(gridded_product_data)
          /\ pc = "returned" => notebook.i = Len(grouped)
          /\ \A j \in 1..notebook.i :
                notebook.axs.flat[j].rows = grouped[j].rows

==========================================================================
